---- MODULE Spec2Model ----
(***************************************************************************)
(* Schema mapper: the verification resolver and mapping engine of          *)
(* mapper.py, the rule resolver of simple_mapper.py and the custom rules   *)
(* of enhanced_app.py.                                                     *)
(*                                                                         *)
(* Text is a sequence of one-character strings, so that joining,           *)
(* splitting, searching and replacing are computed and not assumed.        *)
(* Floats are integers in hundredths: 0.5 is 50, 0.9 is 90, 1.5 is 150.    *)
(***************************************************************************)
EXTENDS Integers, Sequences, FiniteSets, TLC

VARIABLES
    legacy_tables,          \* what SchemaExtractor("legacy.db").extract_schema() returns
    vectorstore,            \* IntelligentMapper.embedder.vectorstore is set (TRUE) or None (FALSE)
    pc,                     \* position of the running operation
    pos,                    \* map_schema: number of columns whose loop body has run
    mappings,               \* map_schema: local list `mappings`
    unmapped,               \* map_schema: local list `unmapped`
    mapping,                \* map_schema: local `mapping` of the last loop body
    result,                 \* value map_schema returned
    v_item,                 \* _verify_mapping: argument legacy_item
    v_candidates,           \* _verify_mapping: argument candidates
    v_service,              \* _verify_mapping: what mapping_chain.run does
    v_out,                  \* _verify_mapping: how the call ended
    custom_rules,           \* enhanced app: st.session_state.custom_rules
    column_mappings,        \* enhanced app: mapper.column_mappings of the last run
    session_mappings,       \* enhanced app: st.session_state.mappings
    simple_mappings,        \* simple app: st.session_state.mappings
    ms_candidates,             \* map_schema: local `candidates` of the last loop body
    search_query,           \* the last similarity search sent to the candidate index
    index_queries,          \* number of similarity searches sent so far
    request,                \* what the last loop body sent to the reasoning service
    service_calls,          \* number of mapping_chain.run calls so far
    sql_in,                 \* generate_sql_script: two argument lists
    im_scripts,             \* IntelligentMapper.generate_sql_script of each list
    sm_scripts,             \* SimpleMapper.generate_sql_script of each list
    db_schema,              \* what the SQLAlchemy inspector reports for one table
    extracted,              \* extract_schema: the ColumnInfo list of that table
    chroma_db,              \* ./chroma_db: the documents of each collection
    index_log,              \* the create_embeddings calls made, per collection
    app_heap,               \* intelligent app: the MappingResult objects created so far
    app_mappings,           \* intelligent app: st.session_state.mappings, as references
    app_approved,           \* intelligent app: st.session_state.approved_mappings, as references
    app_widgets,            \* intelligent app: the selectbox of each listed mapping
    modern_options,         \* intelligent app: what get_modern_columns() returns
    mapping_complete,       \* intelligent app: st.session_state.mapping_complete
    app_script,             \* intelligent app: the last generate_final_script run
    app_last,               \* intelligent app: the last Approve click
    enh_approved,           \* enhanced app: st.session_state.approved_mappings
    simple_approved,        \* simple app: st.session_state.approved_mappings
    simple_last,            \* simple app: the last Approve click
    config_files,           \* ConfigManager: the files of config_dir, name -> content
    config_projects,        \* the projects saved and not deleted since
    config_clock,           \* datetime.now(), counted in saves
    config_out,             \* ConfigManager: the last call and what it returned
    column_data,            \* DataQualityValidator: the values of one column of a table
    issues                  \* _validate_column: the list it returned

vars == <<legacy_tables, vectorstore, pc, pos, mappings, unmapped, mapping, result,
          v_item, v_candidates, v_service, v_out,
          custom_rules, column_mappings, session_mappings, simple_mappings,
          ms_candidates, search_query, index_queries, request, service_calls,
          sql_in, im_scripts, sm_scripts, db_schema, extracted, chroma_db, index_log,
          app_heap, app_mappings, app_approved, app_widgets, modern_options,
          mapping_complete, app_script, app_last, enh_approved, simple_approved,
          simple_last,
          config_files, config_projects, config_clock, config_out, column_data, issues>>

engineVars == <<vectorstore, pc, pos, mappings, unmapped, mapping, result,
                ms_candidates, search_query, index_queries, request, service_calls>>
verifyVars == <<v_item, v_candidates, v_service, v_out>>
ruleVars == <<custom_rules, column_mappings, session_mappings, simple_mappings>>
sqlVars == <<sql_in, im_scripts, sm_scripts>>
extractVars == <<db_schema, extracted>>
indexVars == <<chroma_db, index_log>>
appVars == <<app_heap, app_mappings, app_approved, app_widgets, modern_options,
             mapping_complete, app_script, app_last>>
reviewVars == <<enh_approved, simple_approved, simple_last>>
configVars == <<config_files, config_projects, config_clock, config_out>>
qualityVars == <<column_data, issues>>
moreVars == <<appVars, reviewVars, configVars, qualityVars>>
otherVars == <<sqlVars, extractVars, indexVars, moreVars>>

(***************************************************************************)
(* Bounds                                                                  *)
(***************************************************************************)
MaxCols == 2
MaxRules == 2

(***************************************************************************)
(* Text                                                                    *)
(***************************************************************************)
Dot == <<".">>
Star == <<"*">>
Empty == <<>>

\* s[i..] starts with sub
StartsAt(s, sub, i) ==
    /\ i + Len(sub) - 1 <= Len(s)
    /\ \A j \in 1..Len(sub) : s[i + j - 1] = sub[j]

\* Python: sub in s
Contains(s, sub) == \E i \in 1..(Len(s) + 1) : StartsAt(s, sub, i)

\* Python: s.find(sub) + 1, 0 when absent
Find(s, sub) ==
    IF Contains(s, sub)
    THEN CHOOSE i \in 1..(Len(s) + 1) :
            /\ StartsAt(s, sub, i)
            /\ \A j \in 1..(i - 1) : ~StartsAt(s, sub, j)
    ELSE 0

\* Python: s.split(sep, 1) for s containing sep
SplitOnce(s, sep) ==
    LET i == Find(s, sep)
    IN  <<SubSeq(s, 1, i - 1), SubSeq(s, i + Len(sep), Len(s))>>

RECURSIVE ReplaceFrom(_, _, _, _)
ReplaceFrom(s, old, new, i) ==
    IF i > Len(s) THEN <<>>
    ELSE IF StartsAt(s, old, i)
         THEN new \o ReplaceFrom(s, old, new, i + Len(old))
         ELSE <<s[i]>> \o ReplaceFrom(s, old, new, i + 1)

RECURSIVE Interleave(_, _, _)
Interleave(s, new, i) ==
    IF i > Len(s) THEN new
    ELSE new \o <<s[i]>> \o Interleave(s, new, i + 1)

\* Python: s.replace(old, new)
Replace(s, old, new) ==
    IF old = <<>> THEN Interleave(s, new, 1) ELSE ReplaceFrom(s, old, new, 1)

\* f"{a}.{b}"
Qualified(a, b) == a \o Dot \o b

\* number of positions of seq holding x
Count(seq, x) == Cardinality({i \in 1..Len(seq) : seq[i] = x})

(***************************************************************************)
(* Python dict, in insertion order: a sequence of <<key, value>>           *)
(***************************************************************************)
DictKeys(d) == {d[i][1] : i \in 1..Len(d)}
DictHas(d, k) == k \in DictKeys(d)
DictGet(d, k, default) ==
    IF DictHas(d, k)
    THEN d[CHOOSE i \in 1..Len(d) : d[i][1] = k][2]
    ELSE default
\* d[k] = v
DictSet(d, k, v) ==
    IF DictHas(d, k)
    THEN [i \in 1..Len(d) |-> IF d[i][1] = k THEN <<k, v>> ELSE d[i]]
    ELSE Append(d, <<k, v>>)
\* del d[k]
DictDel(d, k) == SelectSeq(d, LAMBDA e : e[1] # k)

(***************************************************************************)
(* Legacy snapshot: a sequence of tables, each a name and column names     *)
(***************************************************************************)
SeqsNoDup(S, n) ==
    {s \in UNION {[1..k -> S] : k \in 0..n} : \A i, j \in 1..Len(s) : s[i] = s[j] => i = j}

TablesOver(TN, CN) ==
    {[name |-> t, columns |-> cs] : t \in TN, cs \in SeqsNoDup(CN, MaxCols) \ {<<>>}}

SnapshotsOver(TN, CN) ==
    {s \in SeqsNoDup(TablesOver(TN, CN), Cardinality(TN)) :
        \A i, j \in 1..Len(s) : s[i].name = s[j].name => i = j}

RECURSIVE Flatten(_, _)
\* the (table name, column name) pairs in the order the nested loops visit them
Flatten(tables, i) ==
    IF i > Len(tables) THEN <<>>
    ELSE [k \in 1..Len(tables[i].columns) |->
            [table |-> tables[i].name, column |-> tables[i].columns[k]]]
         \o Flatten(tables, i + 1)

Columns(tables) == Flatten(tables, 1)

(***************************************************************************)
(* JSON values as json.loads returns them                                  *)
(***************************************************************************)
JStr(s) == [t |-> "str", s |-> s]
JNum(n) == [t |-> "num", n |-> n]
JNull == [t |-> "null"]
JList(l) == [t |-> "list", l |-> l]
JObj(f) == [t |-> "obj", f |-> f]
\* a response text json.loads rejects with JSONDecodeError
Unparsable == [t |-> "invalid"]

Digits == {"0", "1", "2", "3", "4", "5", "6", "7", "8", "9"}
DigitVal(c) == CHOOSE n \in 0..9 : <<"0", "1", "2", "3", "4", "5", "6", "7", "8", "9">>[n + 1] = c

\* Python float(text) in hundredths for texts "d", "d.d" and "d.dd"; anything else
\* is ValueError
FloatOfText(s) ==
    IF Len(s) = 1 /\ s[1] \in Digits
        THEN [ok |-> TRUE, n |-> 100 * DigitVal(s[1])]
    ELSE IF Len(s) = 3 /\ s[1] \in Digits /\ s[2] = "." /\ s[3] \in Digits
        THEN [ok |-> TRUE, n |-> 100 * DigitVal(s[1]) + 10 * DigitVal(s[3])]
    ELSE IF Len(s) = 4 /\ s[1] \in Digits /\ s[2] = "." /\ s[3] \in Digits /\ s[4] \in Digits
        THEN [ok |-> TRUE, n |-> 100 * DigitVal(s[1]) + 10 * DigitVal(s[3]) + DigitVal(s[4])]
    ELSE [ok |-> FALSE, n |-> 0]

(***************************************************************************)
(* How a call ends                                                         *)
(***************************************************************************)
None == [kind |-> "none"]
Returned(v) == [kind |-> "result", value |-> v]
Raised(e) == [kind |-> "raise", exc |-> e]

\* mapper.py:143  except (json.JSONDecodeError, KeyError, ValueError)
CaughtExceptions == {"JSONDecodeError", "KeyError", "ValueError", "ValidationError"}

Caught(e) == IF e \in CaughtExceptions THEN None ELSE Raised(e)

\* float(mapping_data["confidence"])
FloatOf(v) ==
    CASE v.t = "num" -> [ok |-> TRUE, n |-> v.n, exc |-> ""]
      [] v.t = "str" ->
            LET f == FloatOfText(v.s)
            IN  [ok |-> f.ok, n |-> f.n, exc |-> IF f.ok THEN "" ELSE "ValueError"]
      [] OTHER -> [ok |-> FALSE, n |-> 0, exc |-> "TypeError"]

\* "." in mapping_data["best_match"]: substring test on a str, element test on a
\* list, TypeError on a number or null
DotIn(v) ==
    CASE v.t = "str" -> [ok |-> TRUE, found |-> Contains(v.s, Dot)]
      [] v.t = "list" -> [ok |-> TRUE, found |-> \E i \in 1..Len(v.l) : v.l[i] = JStr(Dot)]
      [] OTHER -> [ok |-> FALSE, found |-> FALSE]

\* legacy_item.split(".", 1), or ("unknown", legacy_item)
ParseLegacyItem(legacy_item) ==
    IF Contains(legacy_item, Dot)
    THEN SplitOnce(legacy_item, Dot)
    ELSE <<<<"u", "n", "k", "n", "o", "w", "n">>, legacy_item>>

\* MappingResult(...): the arguments are evaluated left to right, then pydantic
\* validates the str fields (ValidationError is a ValueError)
BuildMappingResult(legacy_item, modern, f) ==
    LET legacy == ParseLegacyItem(legacy_item)
    IN  IF "confidence" \notin DOMAIN f THEN Caught("KeyError")
        ELSE IF ~FloatOf(f["confidence"]).ok THEN Caught(FloatOf(f["confidence"]).exc)
        ELSE IF "transformation_logic" \notin DOMAIN f THEN Caught("KeyError")
        ELSE IF "reasoning" \notin DOMAIN f THEN Caught("KeyError")
        ELSE IF f["transformation_logic"].t # "str" \/ f["reasoning"].t # "str"
             THEN Caught("ValidationError")
        ELSE Returned([legacy_table |-> legacy[1],
                       legacy_column |-> legacy[2],
                       modern_table |-> modern[1],
                       modern_column |-> modern[2],
                       confidence_score |-> FloatOf(f["confidence"]).n,
                       transformation_logic |-> f["transformation_logic"].s,
                       reasoning |-> f["reasoning"].s])

\* the try block of _verify_mapping once the service has answered with `data`
ParseResponse(legacy_item, data) ==
    IF data.t = "invalid" THEN Caught("JSONDecodeError")
    ELSE IF data.t # "obj" THEN Caught("TypeError")
    ELSE IF "best_match" \notin DOMAIN data.f THEN Caught("KeyError")
    ELSE LET bm == data.f["best_match"]
         IN  IF ~DotIn(bm).ok THEN Caught("TypeError")
             ELSE IF ~DotIn(bm).found THEN None
             ELSE IF bm.t # "str" THEN Caught("AttributeError")
             ELSE BuildMappingResult(legacy_item, SplitOnce(bm.s, Dot), data.f)

\* IntelligentMapper._verify_mapping; `service` is what mapping_chain.run does
VerifyMapping(legacy_item, candidates, service) ==
    IF candidates = <<>> THEN None
    ELSE IF service.kind = "error" THEN Caught(service.exc)
    ELSE ParseResponse(legacy_item, service.json)

(***************************************************************************)
(* Candidate index queries                                                 *)
(***************************************************************************)
\* mapper.py:88  k: int = 5
CandidateK == 5

Take(seq, n) == SubSeq(seq, 1, IF Len(seq) < n THEN Len(seq) ELSE n)

\* SchemaEmbedder.find_similar; `search` is what similarity_search_with_score does
FindSimilar(store, query, k, search) ==
    IF ~store THEN Raised("ValueError")
    ELSE IF search.kind = "error" THEN Raised(search.exc)
    ELSE Returned(Take(search.docs, k))

SearchPrefix ==
    <<"d", "a", "t", "a", "b", "a", "s", "e", " ", "c", "o", "l", "u", "m", "n", " ",
      "f", "i", "e", "l", "d", " ">>

\* IntelligentMapper._find_candidates
FindCandidates(store, legacy_item, k, search) ==
    IF ~store THEN Returned(<<>>)
    ELSE FindSimilar(store, SearchPrefix \o legacy_item, k, search)

\* text of the digit d
DigitText(d) == <<"0", "1", "2", "3", "4", "5", "6", "7", "8", "9">>[d + 1]

\* f"{score:.3f}" of a score below 10, given in thousandths
FormatScore(n) ==
    <<DigitText(n \div 1000), ".", DigitText((n \div 100) % 10),
      DigitText((n \div 10) % 10), DigitText(n % 10)>>

Unknown == <<"u", "n", "k", "n", "o", "w", "n">>

\* c['metadata'].get(key, 'unknown')
MetaGet(c, key) == IF key \in DOMAIN c.metadata THEN c.metadata[key] ELSE Unknown

\* one line of candidate_text
RenderCandidate(c) ==
    <<"-", " ">> \o MetaGet(c, "table_name") \o Dot \o MetaGet(c, "column_name")
        \o <<" ", "(">> \o MetaGet(c, "data_type")
        \o <<")", " ", "-", " ", "S", "c", "o", "r", "e", ":", " ">> \o FormatScore(c.score)

RECURSIVE JoinWith(_, _)
\* sep.join(parts)
JoinWith(parts, sep) ==
    IF parts = <<>> THEN <<>>
    ELSE IF Len(parts) = 1 THEN parts[1]
    ELSE parts[1] \o sep \o JoinWith(Tail(parts), sep)

Newline == <<"\n">>

\* mapper.py:106  candidates[:3]
PromptCandidates == 3

\* candidate_text with every candidate, not the top three
CandidateTextAll(cands) ==
    JoinWith([i \in 1..Len(cands) |-> RenderCandidate(cands[i])], Newline)

\* mapper.py:103-107  candidate_text
CandidateText(cands) ==
    JoinWith([i \in 1..Len(Take(cands, PromptCandidates)) |-> RenderCandidate(cands[i])],
             Newline)

NotCalled == [kind |-> "not_called"]

\* the similarity search _find_candidates sends, if it sends one
IndexRequest(store, legacy_item, k) ==
    IF ~store THEN NotCalled
    ELSE [kind |-> "call", text |-> SearchPrefix \o legacy_item, k |-> k]

\* the mapping_chain.run call of _verify_mapping, if it makes one
ServiceRequest(legacy_item, cands) ==
    IF cands = <<>> THEN NotCalled
    ELSE [kind |-> "call", legacy_item |-> legacy_item,
          modern_candidates |-> CandidateText(cands)]

\* the loop body calling _verify_mapping whatever the candidate query returned
PassRequestUnguarded(legacy_item, fc) ==
    IF fc.kind = "result"
    THEN [kind |-> "call", legacy_item |-> legacy_item,
          modern_candidates |-> CandidateText(fc.value)]
    ELSE NotCalled

\* the service call of one loop body: none when the candidate query raised or
\* returned nothing (mapper.py:168-170)
PassRequest(legacy_item, fc) ==
    IF fc.kind = "result" /\ fc.value # <<>>
    THEN ServiceRequest(legacy_item, fc.value)
    ELSE NotCalled

(***************************************************************************)
(* Inputs: what the index and the reasoning service may answer             *)
(***************************************************************************)
Doc(t, c, score) ==
    [metadata |-> [table_name |-> t, column_name |-> c, data_type |-> <<"T">>],
     score |-> score]

Rankings ==
    { <<>>,
      <<Doc(<<"m">>, <<"n">>, 120)>>,
      <<Doc(<<"m">>, <<"n">>, 120), Doc(<<"m">>, <<"o">>, 250), Doc(<<"p">>, <<"n">>, 310),
        Doc(<<"p">>, <<"q">>, 420), Doc(<<"m">>, <<"q">>, 500), Doc(<<"p">>, <<"o">>, 610)>> }

SearchOutcomes ==
    {[kind |-> "error", exc |-> "ConnectionError"]}
        \cup {[kind |-> "ok", docs |-> r] : r \in Rankings}

BestMatchValues ==
    { JStr(<<"m", ".", "n">>), JStr(<<"m", "n">>), JNum(5), JNull,
      JList(<<JStr(<<"m">>)>>), JList(<<JStr(Dot)>>) }

ConfidenceValues ==
    { JNum(50), JNum(51), JNum(150), JStr(<<"0", ".", "9">>), JStr(<<"h", "i">>), JNull }

TextValues == { JStr(<<"x">>), JNull }

Field(k, V) == {<<>>} \cup {(k :> v) : v \in V}

Objects ==
    { JObj(a @@ b @@ c @@ d) :
        a \in Field("best_match", BestMatchValues),
        b \in Field("confidence", ConfidenceValues),
        c \in Field("transformation_logic", TextValues),
        d \in Field("reasoning", TextValues) }

Responses == Objects \cup { Unparsable, JList(<<>>), JNum(85), JStr(<<"o", "k">>), JNull }

ServiceOutcomes ==
    {[kind |-> "error", exc |-> e] : e \in {"TimeoutError", "ValueError"}}
        \cup {[kind |-> "response", json |-> r] : r \in Responses}

\* the answers the engine runs draw from: every best_match and confidence above,
\* with both texts present, and the answers that are no object
EngineServiceOutcomes ==
    { o \in ServiceOutcomes :
        o.kind = "response" /\ o.json.t = "obj"
            => /\ {"transformation_logic", "reasoning"} \subseteq DOMAIN o.json.f
               /\ o.json.f["transformation_logic"] = JStr(<<"x">>)
               /\ o.json.f["reasoning"] = JStr(<<"x">>) }

ResponseKeys == {"best_match", "confidence", "transformation_logic", "reasoning"}

(***************************************************************************)
(* IntelligentMapper.map_schema                                            *)
(***************************************************************************)
\* mapper.py:175  mapping.confidence_score > 0.5
Threshold == 50

\* the threshold test written with >= : a confidence of exactly 0.5 passes
AcceptedAtThreshold(m) == m.kind = "result" /\ m.value.confidence_score >= Threshold

Accepted(m) == m.kind = "result" /\ m.value.confidence_score > Threshold

\* the loop body with the no-candidates branch leaving the loop pass without
\* recording the column
LoopBodyDropping(ms, us, legacy_item, fc, service) ==
    IF fc.kind = "raise"
    THEN [exc |-> fc.exc, mappings |-> ms, unmapped |-> us, mapping |-> NotCalled]
    ELSE IF fc.value = <<>>
    THEN [exc |-> "", mappings |-> ms, unmapped |-> us, mapping |-> NotCalled]
    ELSE LET m == VerifyMapping(legacy_item, fc.value, service)
         IN  IF m.kind = "raise"
             THEN [exc |-> m.exc, mappings |-> ms, unmapped |-> us, mapping |-> m]
             ELSE IF m.kind = "result" /\ m.value.confidence_score > Threshold
             THEN [exc |-> "", mappings |-> Append(ms, m.value), unmapped |-> us,
                   mapping |-> m]
             ELSE [exc |-> "", mappings |-> ms, unmapped |-> Append(us, legacy_item),
                   mapping |-> m]

\* the loop body putting each new entry at the front of its list
LoopBodyPrepending(ms, us, legacy_item, fc, service) ==
    IF fc.kind = "raise"
    THEN [exc |-> fc.exc, mappings |-> ms, unmapped |-> us, mapping |-> NotCalled]
    ELSE IF fc.value = <<>>
    THEN [exc |-> "", mappings |-> ms, unmapped |-> <<legacy_item>> \o us,
          mapping |-> NotCalled]
    ELSE LET m == VerifyMapping(legacy_item, fc.value, service)
         IN  IF m.kind = "raise"
             THEN [exc |-> m.exc, mappings |-> ms, unmapped |-> us, mapping |-> m]
             ELSE IF m.kind = "result" /\ m.value.confidence_score > Threshold
             THEN [exc |-> "", mappings |-> <<m.value>> \o ms, unmapped |-> us,
                   mapping |-> m]
             ELSE [exc |-> "", mappings |-> ms, unmapped |-> <<legacy_item>> \o us,
                   mapping |-> m]

\* one pass of the loop body over the column legacy_item: the lists after it, the
\* local `mapping`, and the exception that left the loop, if any
LoopBody(ms, us, legacy_item, fc, service) ==
    IF fc.kind = "raise"
    THEN [exc |-> fc.exc, mappings |-> ms, unmapped |-> us, mapping |-> NotCalled]
    ELSE IF fc.value = <<>>
    THEN [exc |-> "", mappings |-> ms, unmapped |-> Append(us, legacy_item),
          mapping |-> NotCalled]
    ELSE LET m == VerifyMapping(legacy_item, fc.value, service)
         IN  IF m.kind = "raise"
             THEN [exc |-> m.exc, mappings |-> ms, unmapped |-> us, mapping |-> m]
             ELSE IF Accepted(m)
             THEN [exc |-> "", mappings |-> Append(ms, m.value), unmapped |-> us,
                   mapping |-> m]
             ELSE [exc |-> "", mappings |-> ms, unmapped |-> Append(us, legacy_item),
                   mapping |-> m]

LegacyItem(col) == Qualified(col.table, col.column)

MapSchemaStart ==
    /\ pc = "start"
    /\ pc' = "loop"
    /\ pos' = 0
    /\ mappings' = <<>>
    /\ unmapped' = <<>>
    /\ ms_candidates' = <<>>
    /\ UNCHANGED <<legacy_tables, vectorstore, mapping, result, search_query, index_queries,
                   request, service_calls, verifyVars, ruleVars, otherVars>>

MapColumn ==
    /\ pc = "loop"
    /\ pos < Len(Columns(legacy_tables))
    /\ \E search \in SearchOutcomes :
        LET legacy_item == LegacyItem(Columns(legacy_tables)[pos + 1])
            fc == FindCandidates(vectorstore, legacy_item, CandidateK, search)
            services == IF fc.kind = "result" /\ fc.value # <<>>
                        THEN EngineServiceOutcomes
                        ELSE {[kind |-> "error", exc |-> "TimeoutError"]}
        IN  \E service \in services :
                LET b == LoopBody(mappings, unmapped, legacy_item, fc, service)
                    q == IndexRequest(vectorstore, legacy_item, CandidateK)
                    r == PassRequest(legacy_item, fc)
                IN  /\ mappings' = b.mappings
                    /\ unmapped' = b.unmapped
                    /\ mapping' = b.mapping
                    /\ pos' = pos + 1
                    /\ pc' = IF b.exc = "" THEN "loop" ELSE "raised"
                    /\ ms_candidates' = IF fc.kind = "result" THEN fc.value ELSE ms_candidates
                    /\ search_query' = q
                    /\ index_queries' = index_queries + IF q.kind = "call" THEN 1 ELSE 0
                    /\ request' = r
                    /\ service_calls' = service_calls + IF r.kind = "call" THEN 1 ELSE 0
    /\ UNCHANGED <<legacy_tables, vectorstore, result, verifyVars, ruleVars, otherVars>>

MapSchemaReturn ==
    /\ pc = "loop"
    /\ pos = Len(Columns(legacy_tables))
    /\ pc' = "returned"
    /\ result' = Returned([table_mappings |-> mappings, unmapped_items |-> unmapped])
    /\ UNCHANGED <<legacy_tables, vectorstore, pos, mappings, unmapped, mapping,
                   ms_candidates, search_query, index_queries, request, service_calls,
                   verifyVars, ruleVars, otherVars>>

(***************************************************************************)
(* Specifications                                                          *)
(***************************************************************************)
Pending == [kind |-> "pending"]

EngineIdle ==
    /\ vectorstore = FALSE
    /\ pc = "idle"
    /\ pos = 0
    /\ mappings = <<>>
    /\ unmapped = <<>>
    /\ mapping = NotCalled
    /\ result = Pending
    /\ ms_candidates = <<>>
    /\ search_query = NotCalled
    /\ index_queries = 0
    /\ request = NotCalled
    /\ service_calls = 0

VerifyIdle ==
    /\ v_item = <<>>
    /\ v_candidates = <<>>
    /\ v_service = Pending
    /\ v_out = Pending

RuleIdle ==
    /\ custom_rules = <<>>
    /\ column_mappings = <<>>
    /\ session_mappings = <<>>
    /\ simple_mappings = <<>>

SqlIdle ==
    /\ sql_in = <<>>
    /\ im_scripts = Pending
    /\ sm_scripts = Pending

ExtractIdle ==
    /\ db_schema = Pending
    /\ extracted = Pending

IndexIdle ==
    /\ chroma_db = <<>>
    /\ index_log = <<>>

AppIdle ==
    /\ app_heap = <<>>
    /\ app_mappings = <<>>
    /\ app_approved = <<>>
    /\ app_widgets = <<>>
    /\ modern_options = <<>>
    /\ mapping_complete = FALSE
    /\ app_script = Pending
    /\ app_last = Pending

ReviewIdle ==
    /\ enh_approved = <<>>
    /\ simple_approved = <<>>
    /\ simple_last = Pending

ConfigIdle ==
    /\ config_files = <<>>
    /\ config_projects = {}
    /\ config_clock = 0
    /\ config_out = Pending

QualityIdle ==
    /\ column_data = Pending
    /\ issues = Pending

MoreIdle == AppIdle /\ ReviewIdle /\ ConfigIdle /\ QualityIdle

OtherIdle == SqlIdle /\ ExtractIdle /\ IndexIdle /\ MoreIdle

EngineTableNames == { <<"a">>, <<"a", ".", "b">> }
EngineColumnNames == { <<"c">>, <<"b", ".", "c">> }

\* a legacy database and a constructed IntelligentMapper, whose _load_vectorstore
\* either set the vector store or left it None
Init ==
    /\ legacy_tables \in SnapshotsOver(EngineTableNames, EngineColumnNames)
    /\ vectorstore \in BOOLEAN
    /\ pc = "start"
    /\ pos = 0
    /\ mappings = <<>>
    /\ unmapped = <<>>
    /\ mapping = NotCalled
    /\ result = Pending
    /\ ms_candidates = <<>>
    /\ search_query = NotCalled
    /\ index_queries = 0
    /\ request = NotCalled
    /\ service_calls = 0
    /\ VerifyIdle
    /\ RuleIdle
    /\ OtherIdle

Next == MapSchemaStart \/ MapColumn \/ MapSchemaReturn

Spec == Init /\ [][Next]_vars

VerifyItems == { <<"a", ".", "c">>, <<"a", ".", "b", ".", "c">>, <<"c">> }

\* one call of _verify_mapping on each input
InitVerify ==
    /\ legacy_tables = <<>>
    /\ EngineIdle
    /\ RuleIdle
    /\ OtherIdle
    /\ v_item \in VerifyItems
    /\ v_candidates \in {Take(r, CandidateK) : r \in Rankings}
    /\ v_service \in ServiceOutcomes
    /\ v_out = Pending

VerifyCall ==
    /\ v_out = Pending
    /\ v_out' = VerifyMapping(v_item, v_candidates, v_service)
    /\ UNCHANGED <<legacy_tables, engineVars, v_item, v_candidates, v_service, ruleVars,
                   otherVars>>

NextVerify == VerifyCall

SpecVerify == InitVerify /\ [][NextVerify]_vars

(***************************************************************************)
(* SimpleMapper: the rule tables and the rule resolver                     *)
(***************************************************************************)
\* SimpleMapper.__init__: self.column_mappings
ColumnRules ==
    << <<<<"c", "_", "n", "o", "m">>,
         <<"f", "u", "l", "l", "_", "n", "a", "m", "e">>>>,
       <<<<"c", "_", "e", "m", "a", "i", "l">>,
         <<"e", "m", "a", "i", "l", "_", "a", "d", "d", "r", "e", "s", "s">>>>,
       <<<<"d", "t", "_", "n", "a", "s", "c">>,
         <<"b", "i", "r", "t", "h", "_", "d", "a", "t", "e">>>>,
       <<<<"t", "e", "l", "_", "c", "e", "l">>,
         <<"p", "h", "o", "n", "e", "_", "n", "u", "m", "b", "e", "r">>>>,
       <<<<"e", "n", "d", "_", "r", "u", "a">>,
         <<"s", "t", "r", "e", "e", "t", "_", "a", "d", "d", "r", "e", "s", "s">>>>,
       <<<<"e", "n", "d", "_", "c", "e", "p">>,
         <<"p", "o", "s", "t", "a", "l", "_", "c", "o", "d", "e">>>>,
       <<<<"d", "t", "_", "v", "n", "d">>,
         <<"o", "r", "d", "e", "r", "_", "d", "a", "t", "e">>>>,
       <<<<"v", "l", "_", "t", "o", "t">>,
         <<"t", "o", "t", "a", "l", "_", "a", "m", "o", "u", "n", "t">>>>,
       <<<<"s", "t", "_", "v", "n", "d">>,
         <<"o", "r", "d", "e", "r", "_", "s", "t", "a", "t", "u", "s">>>>,
       <<<<"n", "m", "_", "p", "r", "o", "d">>,
         <<"p", "r", "o", "d", "u", "c", "t", "_", "n", "a", "m", "e">>>>,
       <<<<"d", "e", "s", "c", "_", "p", "r", "o", "d">>,
         <<"p", "r", "o", "d", "u", "c", "t", "_", "d", "e", "s", "c", "r", "i", "p", "t", "i", "o", "n">>>>,
       <<<<"p", "r", "e", "c", "o", "_", "u", "n", "i", "t">>,
         <<"u", "n", "i", "t", "_", "p", "r", "i", "c", "e">>>>,
       <<<<"q", "t", "d", "_", "e", "s", "t">>,
         <<"s", "t", "o", "c", "k", "_", "q", "u", "a", "n", "t", "i", "t", "y">>>> >>

\* SimpleMapper.__init__: self.table_mappings
TableRules ==
    << <<<<"t", "b", "_", "c", "l", "i", "_", "r", "e", "g">>,
         <<"c", "u", "s", "t", "o", "m", "e", "r", "s">>>>,
       <<<<"t", "b", "_", "v", "e", "n", "d", "a", "s", "_", "h", "d", "r">>,
         <<"o", "r", "d", "e", "r", "s">>>>,
       <<<<"t", "b", "_", "p", "r", "o", "d", "_", "c", "a", "t">>,
         <<"p", "r", "o", "d", "u", "c", "t", "s">>>> >>

\* simple_mapper.py:63  0.9 if column.name in self.column_mappings else 0.3
RuleHit == 90
RuleMiss == 30

\* f"Mapped '{column.name}' to '{modern_column}' based on naming patterns"
Reasoning(column, modern_column) ==
    <<"M", "a", "p", "p", "e", "d", " ", "'">> \o column
        \o <<"'", " ", "t", "o", " ", "'">> \o modern_column
        \o <<"'", " ", "b", "a", "s", "e", "d", " ", "o", "n", " ", "n", "a", "m", "i", "n", "g", " ", "p", "a", "t", "t", "e", "r", "n", "s">>

\* the resolver with the confidence computed from both rule tables
RuleResolveByTable(table, column, table_rules, column_rules) ==
    LET modern_table == DictGet(table_rules, table, table)
        modern_column == DictGet(column_rules, column, column)
        confidence == IF DictHas(column_rules, column) /\ DictHas(table_rules, table)
                      THEN RuleHit ELSE RuleMiss
    IN  [legacy_table |-> table,
         legacy_column |-> column,
         modern_table |-> modern_table,
         modern_column |-> modern_column,
         confidence_score |-> confidence,
         reasoning |-> Reasoning(column, modern_column)]

\* the resolver looking the table name up in the column rules
RuleResolveOneTable(table, column, table_rules, column_rules) ==
    LET modern_table == DictGet(column_rules, table, table)
        modern_column == DictGet(column_rules, column, column)
        confidence == IF DictHas(column_rules, column) THEN RuleHit ELSE RuleMiss
    IN  [legacy_table |-> table,
         legacy_column |-> column,
         modern_table |-> modern_table,
         modern_column |-> modern_column,
         confidence_score |-> confidence,
         reasoning |-> Reasoning(column, modern_column)]

\* the body of the two loops of SimpleMapper.map_schema for one column
RuleResolve(table, column, table_rules, column_rules) ==
    LET modern_table == DictGet(table_rules, table, table)
        modern_column == DictGet(column_rules, column, column)
        confidence == IF DictHas(column_rules, column) THEN RuleHit ELSE RuleMiss
    IN  [legacy_table |-> table,
         legacy_column |-> column,
         modern_table |-> modern_table,
         modern_column |-> modern_column,
         confidence_score |-> confidence,
         reasoning |-> Reasoning(column, modern_column)]

\* map_schema keeping only the mappings above the engine's 0.5 threshold
SimpleMapSchemaFiltered(tables, table_rules, column_rules) ==
    SelectSeq([i \in 1..Len(Columns(tables)) |->
                  RuleResolve(Columns(tables)[i].table, Columns(tables)[i].column,
                              table_rules, column_rules)],
              LAMBDA m : m.confidence_score > 50)

\* SimpleMapper.map_schema: one SimpleMapping per column, in loop order
SimpleMapSchema(tables, table_rules, column_rules) ==
    [i \in 1..Len(Columns(tables)) |->
        RuleResolve(Columns(tables)[i].table, Columns(tables)[i].column,
                    table_rules, column_rules)]

(***************************************************************************)
(* Enhanced application: custom rules and the mapping run                  *)
(***************************************************************************)
RECURSIVE ApplyToKeysUnderPattern(_, _, _, _, _)
\* the loop over the keys writing the new value under the pattern instead of the key
ApplyToKeysUnderPattern(cm, keys, i, base_pattern, replacement) ==
    IF i > Len(keys) THEN cm
    ELSE LET key == keys[i]
             next == IF Contains(key, base_pattern)
                     THEN DictSet(cm, base_pattern,
                                  Replace(replacement, Star, Replace(key, base_pattern, <<>>)))
                     ELSE cm
         IN  ApplyToKeysUnderPattern(next, keys, i + 1, base_pattern, replacement)

RECURSIVE ApplyToKeys(_, _, _, _, _)
\* for key in list(mapper.column_mappings.keys()): if base_pattern in key: ...
ApplyToKeys(cm, keys, i, base_pattern, replacement) ==
    IF i > Len(keys) THEN cm
    ELSE LET key == keys[i]
             next == IF Contains(key, base_pattern)
                     THEN DictSet(cm, key,
                                  Replace(replacement, Star, Replace(key, base_pattern, <<>>)))
                     ELSE cm
         IN  ApplyToKeys(next, keys, i + 1, base_pattern, replacement)

\* the rule body with a pattern without '*' stored as an exact-match rule
ApplyRuleExact(cm, pattern, replacement) ==
    IF Contains(pattern, Star)
    THEN ApplyToKeys(cm, [i \in 1..Len(cm) |-> cm[i][1]], 1,
                     Replace(pattern, Star, <<>>), replacement)
    ELSE DictSet(cm, pattern, replacement)

\* the body of `for pattern, replacement in custom_rules.items()`
ApplyRule(cm, pattern, replacement) ==
    IF Contains(pattern, Star)
    THEN ApplyToKeys(cm, [i \in 1..Len(cm) |-> cm[i][1]], 1,
                     Replace(pattern, Star, <<>>), replacement)
    ELSE cm

RECURSIVE ApplyCustomRules(_, _, _)
\* enhanced_app.py:348-354
ApplyCustomRules(cm, rules, i) ==
    IF i > Len(rules) THEN cm
    ELSE ApplyCustomRules(ApplyRule(cm, rules[i][1], rules[i][2]), rules, i + 1)

Patterns == { <<"c", "_", "*">>, <<"z", "z">> }
Replacements == { <<"*", "_", "n", "a", "m", "e">>, <<"n", "o", "v", "o">> }

\* display_custom_rules: the Add Rule button with the two text inputs
AddRule ==
    /\ \E legacy_pattern \in Patterns \cup {<<>>}, modern_pattern \in Replacements \cup {<<>>} :
        /\ DictHas(custom_rules, legacy_pattern) \/ Len(custom_rules) < MaxRules
        /\ custom_rules' = IF legacy_pattern # <<>> /\ modern_pattern # <<>>
                           THEN DictSet(custom_rules, legacy_pattern, modern_pattern)
                           ELSE custom_rules
    /\ UNCHANGED <<legacy_tables, engineVars, verifyVars, column_mappings,
                   session_mappings, simple_mappings, otherVars>>

\* display_custom_rules: the delete button of one rule
DeleteRule ==
    /\ \E legacy \in DictKeys(custom_rules) :
        custom_rules' = DictDel(custom_rules, legacy)
    /\ UNCHANGED <<legacy_tables, engineVars, verifyVars, column_mappings,
                   session_mappings, simple_mappings, otherVars>>

\* enhanced_app.py main: the Start Enhanced Mapping Process button
GenerateEnhanced ==
    /\ column_mappings' = ApplyCustomRules(ColumnRules, custom_rules, 1)
    /\ session_mappings' = SimpleMapSchema(legacy_tables, TableRules, column_mappings')
    /\ UNCHANGED <<legacy_tables, engineVars, verifyVars, custom_rules, simple_mappings,
                   otherVars>>

\* simple_app.py main: the Start Mapping Process button
GenerateSimple ==
    /\ simple_mappings' = SimpleMapSchema(legacy_tables, TableRules, ColumnRules)
    /\ UNCHANGED <<legacy_tables, engineVars, verifyVars, custom_rules, column_mappings,
                   session_mappings, otherVars>>

RuleTableNames == { <<"t", "b", "_", "c", "l", "i", "_", "r", "e", "g">>, <<"x", "_", "t", "a", "b">> }
RuleColumnNames == { <<"c", "_", "n", "o", "m">>, <<"d", "t", "_", "n", "a", "s", "c">>, <<"z", "z">> }

\* a legacy database and fresh sessions of the simple and the enhanced application
InitRule ==
    /\ legacy_tables \in SnapshotsOver(RuleTableNames, RuleColumnNames)
    /\ EngineIdle
    /\ VerifyIdle
    /\ OtherIdle
    /\ custom_rules = <<>>
    /\ column_mappings = <<>>
    /\ session_mappings = <<>>
    /\ simple_mappings = <<>>

NextRule == AddRule \/ DeleteRule \/ GenerateEnhanced \/ GenerateSimple

SpecRule == InitRule /\ [][NextRule]_vars

(***************************************************************************)
(* generate_sql_script of both mappers                                     *)
(***************************************************************************)
MaxMappings == 3

CommaSpace == <<",", " ">>
MappingFor == <<"-", "-", " ", "M", "a", "p", "p", "i", "n", "g", " ", "f", "o", "r", " ">>
InsertInto == <<"I", "N", "S", "E", "R", "T", " ", "I", "N", "T", "O", " ">>
Select == <<"S", "E", "L", "E", "C", "T", " ">>
From == <<"F", "R", "O", "M", " ">>

RECURSIVE GroupStep(_, _, _)
\* the for loop of mapper.py:188-191 from mappings[i] on, table_mappings being d
GroupStep(ms, i, d) ==
    IF i > Len(ms) THEN d
    ELSE LET t == ms[i].modern_table
             d1 == IF ~DictHas(d, t) THEN DictSet(d, t, <<>>) ELSE d
         IN  GroupStep(ms, i + 1, DictSet(d1, t, Append(DictGet(d1, t, <<>>), ms[i])))

\* a grouping that opens a new group for every mapping
GroupByTableNoMerge(ms) == [i \in 1..Len(ms) |-> <<ms[i].modern_table, <<ms[i]>>>>]

\* the groups in the reverse of their insertion order
GroupByTableLastFirst(ms) ==
    LET d == GroupStep(ms, 1, <<>>)
    IN  [i \in 1..Len(d) |-> d[Len(d) + 1 - i]]

\* table_mappings after the loop: modern_table -> its mappings, in insertion order
GroupByTable(ms) == GroupStep(ms, 1, <<>>)

\* the FROM table taken from the last mapping of the group
FromTableLast(table_mappings_list) ==
    table_mappings_list[Len(table_mappings_list)].legacy_table

\* mapper.py:206  table_mappings_list[0].legacy_table
FromTable(table_mappings_list) == table_mappings_list[1].legacy_table

\* the f-string of mapper.py:202-207 with from_table in the FROM clause
StatementWith(modern_table, table_mappings_list, from_table) ==
    LET modern_columns ==
            [i \in 1..Len(table_mappings_list) |-> table_mappings_list[i].modern_column]
        legacy_columns ==
            [i \in 1..Len(table_mappings_list) |->
                Qualified(table_mappings_list[i].legacy_table,
                          table_mappings_list[i].legacy_column)]
    IN  Newline \o MappingFor \o modern_table \o Newline
            \o InsertInto \o modern_table \o <<" ", "(">>
            \o JoinWith(modern_columns, CommaSpace) \o <<")">> \o Newline
            \o Select \o JoinWith(legacy_columns, CommaSpace) \o Newline
            \o From \o from_table \o <<";">> \o Newline

Reverse(seq) == [i \in 1..Len(seq) |-> seq[Len(seq) + 1 - i]]

\* the statement with its SELECT list in the reverse of the INSERT list's order
StatementTextSelectReversed(modern_table, table_mappings_list) ==
    LET modern_columns ==
            [i \in 1..Len(table_mappings_list) |-> table_mappings_list[i].modern_column]
        legacy_columns ==
            Reverse([i \in 1..Len(table_mappings_list) |->
                        Qualified(table_mappings_list[i].legacy_table,
                                  table_mappings_list[i].legacy_column)])
    IN  Newline \o MappingFor \o modern_table \o Newline
            \o InsertInto \o modern_table \o <<" ", "(">>
            \o JoinWith(modern_columns, CommaSpace) \o <<")">> \o Newline
            \o Select \o JoinWith(legacy_columns, CommaSpace) \o Newline
            \o From \o FromTable(table_mappings_list) \o <<";">> \o Newline

StatementText(modern_table, table_mappings_list) ==
    StatementWith(modern_table, table_mappings_list, FromTable(table_mappings_list))

\* statements joined with nothing between them
NoSeparator == <<>>

\* mapper.py:210  "\n".join(sql_scripts)
ScriptSeparator == Newline

\* every statement reading FROM the legacy table of the first mapping of the input
GenerateSqlScriptFromFirst(ms) ==
    LET d == GroupByTable(ms)
    IN  JoinWith([i \in 1..Len(d) |-> StatementWith(d[i][1], d[i][2], ms[1].legacy_table)],
                 ScriptSeparator)

\* IntelligentMapper.generate_sql_script
GenerateSqlScript(ms) ==
    LET d == GroupByTable(ms)
    IN  JoinWith([i \in 1..Len(d) |-> StatementText(d[i][1], d[i][2])], ScriptSeparator)

RECURSIVE SimpleGroupStep(_, _, _)
\* the for loop of simple_mapper.py:82-85
SimpleGroupStep(ms, i, d) ==
    IF i > Len(ms) THEN d
    ELSE LET t == ms[i].modern_table
             d1 == IF ~DictHas(d, t) THEN DictSet(d, t, <<>>) ELSE d
         IN  SimpleGroupStep(ms, i + 1, DictSet(d1, t, Append(DictGet(d1, t, <<>>), ms[i])))

\* the f-string of simple_mapper.py:93-98
SimpleStatementText(modern_table, table_mappings_list) ==
    LET modern_columns ==
            [i \in 1..Len(table_mappings_list) |-> table_mappings_list[i].modern_column]
        legacy_columns ==
            [i \in 1..Len(table_mappings_list) |->
                table_mappings_list[i].legacy_table \o Dot
                    \o table_mappings_list[i].legacy_column]
    IN  Newline \o MappingFor \o modern_table \o Newline
            \o InsertInto \o modern_table \o <<" ", "(">>
            \o JoinWith(modern_columns, CommaSpace) \o <<")">> \o Newline
            \o Select \o JoinWith(legacy_columns, CommaSpace) \o Newline
            \o From \o table_mappings_list[1].legacy_table \o <<";">> \o Newline

\* SimpleMapper.generate_sql_script
SimpleGenerateSqlScript(ms) ==
    LET d == SimpleGroupStep(ms, 1, <<>>)
    IN  JoinWith([i \in 1..Len(d) |-> SimpleStatementText(d[i][1], d[i][2])], Newline)

\* the fields of MappingResult that generate_sql_script reads
SqlMapping(lt, lc, mt, mc) ==
    [legacy_table |-> lt, legacy_column |-> lc, modern_table |-> mt, modern_column |-> mc]

SqlMappings ==
    { SqlMapping(<<"a">>, <<"c">>, <<"m">>, <<"n">>),
      SqlMapping(<<"b">>, <<"c">>, <<"m">>, <<"o">>),
      SqlMapping(<<"a">>, <<"d">>, <<"p">>, <<"q">>),
      SqlMapping(<<"b">>, <<"d">>, <<"p">>, <<"n">>),
      SqlMapping(<<"b">>, <<"c">>, <<"m", "p">>, <<"n">>) }

SqlLists == UNION {[1..k -> SqlMappings] : k \in 0..MaxMappings}

Permute(seq, f) == [i \in 1..Len(seq) |-> seq[f[i]]]

\* pairs of argument lists, the second a reordering of the first
SqlInputs ==
    UNION { {<<ms, Permute(ms, f)>> : f \in Permutations(1..Len(ms))} : ms \in SqlLists }

InitSql ==
    /\ legacy_tables = <<>>
    /\ EngineIdle
    /\ VerifyIdle
    /\ RuleIdle
    /\ ExtractIdle
    /\ IndexIdle
    /\ MoreIdle
    /\ sql_in \in SqlInputs
    /\ im_scripts = Pending
    /\ sm_scripts = Pending

IntelligentGenerateSql ==
    /\ im_scripts = Pending
    /\ im_scripts' = Returned(<<GenerateSqlScript(sql_in[1]), GenerateSqlScript(sql_in[2])>>)
    /\ UNCHANGED <<legacy_tables, engineVars, verifyVars, ruleVars, sql_in, sm_scripts,
                   extractVars, indexVars, moreVars>>

SimpleGenerateSql ==
    /\ sm_scripts = Pending
    /\ sm_scripts' = Returned(<<SimpleGenerateSqlScript(sql_in[1]),
                                SimpleGenerateSqlScript(sql_in[2])>>)
    /\ UNCHANGED <<legacy_tables, engineVars, verifyVars, ruleVars, sql_in, im_scripts,
                   extractVars, indexVars, moreVars>>

NextSql == IntelligentGenerateSql \/ SimpleGenerateSql

SpecSql == InitSql /\ [][NextSql]_vars

(***************************************************************************)
(* SchemaExtractor.extract_schema, for one table of the inspector          *)
(***************************************************************************)
MaxFks == 2

\* an Optional[str] holding the text x
Str(x) == [kind |-> "str", value |-> x]

\* extractor.py:62-67  ColumnInfo(...), foreign_key left at its default
ColumnInfo(name, data_type) ==
    [name |-> name, data_type |-> data_type, nullable |-> TRUE, primary_key |-> FALSE,
     foreign_key |-> None]

Elems(seq) == {seq[i] : i \in 1..Len(seq)}

\* extractor.py:72-75  the two inner loops for one constraint: every column named
\* in constrained_columns gets referred_table.referred_columns[0]
ApplyForeignKey(columns, fk) ==
    [k \in 1..Len(columns) |->
        IF columns[k].name \in Elems(fk.constrained_columns)
        THEN [columns[k] EXCEPT
                 !.foreign_key = Str(Qualified(fk.referred_table, fk.referred_columns[1]))]
        ELSE columns[k]]

RECURSIVE ApplyForeignKeys(_, _, _)
\* extractor.py:71  for fk in get_foreign_keys(table_name), from the i-th on
ApplyForeignKeys(columns, fks, i) ==
    IF i > Len(fks) THEN columns
    ELSE ApplyForeignKeys(ApplyForeignKey(columns, fks[i]), fks, i + 1)

\* the columns list extract_schema builds for a table
ExtractColumns(schema) ==
    ApplyForeignKeys([k \in 1..Len(schema.columns) |-> ColumnInfo(schema.columns[k], <<"T">>)],
                     schema.foreign_keys, 1)

FkColumnNames == {<<"a">>, <<"b">>}
ReferredTables == {<<"t">>, <<"u">>}
ReferredColumnNames == {<<"x">>, <<"y">>}

\* the constraints the inspector may report for a table with the columns cols
ForeignKeysOver(cols) ==
    {[constrained_columns |-> cc, referred_table |-> rt, referred_columns |-> rc] :
        cc \in SeqsNoDup(Elems(cols), Len(cols)) \ {<<>>},
        rt \in ReferredTables,
        rc \in SeqsNoDup(ReferredColumnNames, Cardinality(ReferredColumnNames)) \ {<<>>}}

InspectorAnswers ==
    UNION { {[columns |-> cols, foreign_keys |-> fks] :
                fks \in {f \in UNION {[1..n -> ForeignKeysOver(cols)] : n \in 0..MaxFks} :
                            \A i \in 1..Len(f) :
                                Len(f[i].constrained_columns) = Len(f[i].referred_columns)}} :
            cols \in SeqsNoDup(FkColumnNames, Cardinality(FkColumnNames)) \ {<<>>} }

InitExtract ==
    /\ legacy_tables = <<>>
    /\ EngineIdle
    /\ VerifyIdle
    /\ RuleIdle
    /\ SqlIdle
    /\ IndexIdle
    /\ MoreIdle
    /\ db_schema \in InspectorAnswers
    /\ extracted = Pending

ExtractSchema ==
    /\ extracted = Pending
    /\ extracted' = Returned(ExtractColumns(db_schema))
    /\ UNCHANGED <<legacy_tables, engineVars, verifyVars, ruleVars, sqlVars, db_schema,
                   indexVars, moreVars>>

NextExtract == ExtractSchema

SpecExtract == InitExtract /\ [][NextExtract]_vars

(***************************************************************************)
(* SchemaEmbedder.create_embeddings and the persistent collections         *)
(***************************************************************************)
MaxIndexRuns == 2

\* one entry of col_descriptions
ColumnDescription(col) ==
    col.name \o <<" ", "(">> \o col.data_type \o <<")">>
        \o (IF col.primary_key THEN <<" ", "[", "P", "R", "I", "M", "A", "R", "Y", " ", "K", "E", "Y", "]">> ELSE <<>>)
        \o (IF col.foreign_key.kind = "str" /\ col.foreign_key.value # <<>>
            THEN <<" ", "[", "F", "O", "R", "E", "I", "G", "N", " ", "K", "E", "Y", " ", "-", ">", " ">> \o col.foreign_key.value \o <<"]">>
            ELSE <<>>)

\* TableInfo.to_description
ToDescription(table) ==
    <<"T", "a", "b", "l", "e", ":", " ">> \o table.name \o Newline \o <<"C", "o", "l", "u", "m", "n", "s", ":", " ">>
        \o JoinWith([k \in 1..Len(table.columns) |-> ColumnDescription(table.columns[k])],
                    CommaSpace)

\* the Document of a table
TableDocument(table) ==
    [page_content |-> ToDescription(table),
     metadata |-> [type |-> "table", name |-> table.name]]

\* the Document of a column
ColumnDocument(table, col) ==
    [page_content |-> <<"C", "o", "l", "u", "m", "n", ":", " ">> \o col.name \o <<" ", "i", "n", " ", "t", "a", "b", "l", "e", " ">> \o table.name \o <<" ", "-", " ", "T", "y", "p", "e", ":", " ">> \o col.data_type,
     metadata |-> [type |-> "column", table_name |-> table.name, column_name |-> col.name,
                   data_type |-> col.data_type]]

RECURSIVE Documents(_, _)
\* extractor.py:91-113  `documents`, from the i-th table on
Documents(tables, i) ==
    IF i > Len(tables) THEN <<>>
    ELSE <<TableDocument(tables[i])>>
            \o [k \in 1..Len(tables[i].columns) |-> ColumnDocument(tables[i], tables[i].columns[k])]
            \o Documents(tables, i + 1)

\* Chroma.from_documents with a persist_directory: the collection of that name is
\* opened, or created when absent, and the documents are added under fresh ids
AddDocuments(db, collection_name, documents) ==
    DictSet(db, collection_name, DictGet(db, collection_name, <<>>) \o documents)

TableInfo(name, column_names) ==
    [name |-> name,
     columns |-> [k \in 1..Len(column_names) |-> ColumnInfo(column_names[k], <<"T">>)]]

IndexSnapshots ==
    { <<TableInfo(<<"t">>, <<<<"a">>>>)>>,
      <<TableInfo(<<"u">>, <<<<"a">>, <<"b">>>>)>>,
      <<TableInfo(<<"t">>, <<<<"a">>>>), TableInfo(<<"u">>, <<<<"b">>>>)>> }

CollectionNames == {"modern_schema", "legacy_schema"}

\* what the libraries may do in a create_embeddings call: embedding fails before
\* anything is stored, or the documents are stored and persist() then returns or
\* is missing from the installed vector store class
IndexOutcomes == {"EmbeddingError", "ok", "AttributeError"}

InitIndex ==
    /\ legacy_tables = <<>>
    /\ EngineIdle
    /\ VerifyIdle
    /\ RuleIdle
    /\ SqlIdle
    /\ ExtractIdle
    /\ MoreIdle
    /\ chroma_db = <<>>
    /\ index_log = <<>>

CreateEmbeddings ==
    /\ Len(index_log) < MaxIndexRuns
    /\ \E tables \in IndexSnapshots, collection_name \in CollectionNames,
          outcome \in IndexOutcomes :
            /\ chroma_db' = IF outcome = "EmbeddingError" THEN chroma_db
                            ELSE AddDocuments(chroma_db, collection_name, Documents(tables, 1))
            /\ index_log' = Append(index_log, [tables |-> tables,
                                               collection_name |-> collection_name,
                                               outcome |-> outcome])
    /\ UNCHANGED <<legacy_tables, engineVars, verifyVars, ruleVars, sqlVars, extractVars,
                   moreVars>>

NextIndex == CreateEmbeddings

SpecIndex == InitIndex /\ [][NextIndex]_vars

(***************************************************************************)
(* Intelligent application (app.py): generate, review, approve, script     *)
(***************************************************************************)
MaxObjects == 2
MaxApprovals == 2

\* a MappingResult as map_schema accepts it
AppMapping(lt, lc, mt, mc) ==
    [legacy_table |-> lt, legacy_column |-> lc, modern_table |-> mt, modern_column |-> mc,
     confidence_score |-> 90, transformation_logic |-> <<"x">>, reasoning |-> <<"x">>]

\* table_mappings of the runs load_mappings may return
AppRuns ==
    { <<AppMapping(<<"a">>, <<"c">>, <<"m">>, <<"n">>)>>,
      <<AppMapping(<<"a">>, <<"c">>, <<"m">>, <<"n">>),
        AppMapping(<<"a">>, <<"d">>, <<"m">>, <<"n">>)>>,
      <<AppMapping(<<"a">>, <<"c">>, <<"x">>, <<"y">>),
        AppMapping(<<"a">>, <<"d">>, <<"m">>, <<"o">>)>> }

\* sorted "table.column" lists of the modern database
ModernOptionLists ==
    { << <<"m", ".", "n">>, <<"m", ".", "o">> >>,
      << <<"m", ".", "n">>, <<"m", ".", "o">>, <<"p", ".", "q">> >> }

\* app.py:97  current_modern
CurrentModern(m) == Qualified(m.modern_table, m.modern_column)

\* app.py:99-104  the value of a selectbox the reviewer has not touched
DefaultSelection(options, m) ==
    IF \E k \in 1..Len(options) : options[k] = CurrentModern(m)
    THEN CurrentModern(m)
    ELSE options[1]

\* app.py:113-116  the mapping after Approve with selected_modern in the selectbox
ApproveObject(m, selected_modern) ==
    IF selected_modern # CurrentModern(m)
    THEN [m EXCEPT !.modern_table = SplitOnce(selected_modern, Dot)[1],
                   !.modern_column = SplitOnce(selected_modern, Dot)[2]]
    ELSE m

\* the objects a list of references points to
Resolve(heap, refs) == [k \in 1..Len(refs) |-> heap[refs[k]]]

InitApp ==
    /\ legacy_tables = <<>>
    /\ EngineIdle
    /\ VerifyIdle
    /\ RuleIdle
    /\ SqlIdle
    /\ ExtractIdle
    /\ IndexIdle
    /\ ReviewIdle
    /\ ConfigIdle
    /\ QualityIdle
    /\ app_heap = <<>>
    /\ app_mappings = <<>>
    /\ app_approved = <<>>
    /\ app_widgets = <<>>
    /\ modern_options \in ModernOptionLists
    /\ mapping_complete = FALSE
    /\ app_script = Pending
    /\ app_last = Pending

appFrame == <<legacy_tables, engineVars, verifyVars, ruleVars, sqlVars, extractVars,
              indexVars, reviewVars, configVars, qualityVars>>

\* app.py:194-203  the Start Mapping Process button; the review page then shows
\* one fresh selectbox per mapping
AppGenerate ==
    /\ \E run \in AppRuns :
        /\ Len(app_heap) + Len(run) <= MaxObjects
        /\ app_heap' = app_heap \o run
        /\ app_mappings' = [k \in 1..Len(run) |-> Len(app_heap) + k]
        /\ app_widgets' = [k \in 1..Len(run) |->
                              [value |-> DefaultSelection(modern_options, run[k]),
                               touched |-> FALSE]]
    /\ mapping_complete' = TRUE
    /\ UNCHANGED <<appFrame, app_approved, modern_options, app_script, app_last>>

\* the reviewer picks another option in the selectbox of mapping i
AppSelect ==
    /\ mapping_complete
    /\ \E i \in 1..Len(app_mappings), k \in 1..Len(modern_options) :
        /\ modern_options[k] # app_widgets[i].value
        /\ app_widgets' = [app_widgets EXCEPT ![i] = [value |-> modern_options[k],
                                                      touched |-> TRUE]]
    /\ UNCHANGED <<appFrame, app_heap, app_mappings, app_approved, modern_options,
                   mapping_complete, app_script, app_last>>

\* app.py:111-119  the Approve button of mapping i
AppApprove ==
    /\ mapping_complete
    /\ Len(app_approved) < MaxApprovals
    /\ \E i \in 1..Len(app_mappings) :
        LET ref == app_mappings[i]
        IN  /\ app_heap' = [app_heap EXCEPT
                               ![ref] = ApproveObject(app_heap[ref], app_widgets[i].value)]
            /\ app_approved' = Append(app_approved, ref)
            /\ app_last' = [kind |-> "approve", ref |-> ref, before |-> app_heap[ref],
                            touched |-> app_widgets[i].touched]
    /\ UNCHANGED <<appFrame, app_mappings, app_widgets, modern_options, mapping_complete,
                   app_script>>

\* app.py:142-152  generate_final_script
AppGenerateScript ==
    /\ app_approved # <<>>
    /\ app_script' = Returned([approved_mappings |-> Resolve(app_heap, app_approved),
                               sql_script |-> GenerateSqlScript(Resolve(app_heap, app_approved))])
    /\ UNCHANGED <<appFrame, app_heap, app_mappings, app_approved, app_widgets,
                   modern_options, mapping_complete, app_last>>

NextApp == AppGenerate \/ AppSelect \/ AppApprove \/ AppGenerateScript

SpecApp == InitApp /\ [][NextApp]_vars

(***************************************************************************)
(* Enhanced application (enhanced_app.py): the review page                 *)
(***************************************************************************)
MaxApproved == 3

\* the characters of the names in code-point order
CodePoints ==
    <<".", "A", "_", "a", "b", "c", "d", "e", "f", "g", "h", "i", "j", "k", "l", "m",
      "n", "o", "p", "q", "r", "s", "t", "u", "v", "w", "x", "y", "z">>

CodePoint(c) == CHOOSE i \in 1..Len(CodePoints) : CodePoints[i] = c

RECURSIVE TextLess(_, _)
\* Python: a < b for two str
TextLess(a, b) ==
    IF b = <<>> THEN FALSE
    ELSE IF a = <<>> THEN TRUE
    ELSE IF a[1] = b[1] THEN TextLess(Tail(a), Tail(b))
    ELSE CodePoint(a[1]) < CodePoint(b[1])

\* list.sort: stable; before[i, j] iff the key of seq[i] is ordered before that of seq[j]
SortedBy(seq, before) ==
    LET rank(i) == Cardinality({j \in 1..Len(seq) :
                        \/ before[j, i]
                        \/ (~before[i, j] /\ j < i)}) + 1
    IN  [r \in 1..Len(seq) |-> seq[CHOOSE i \in 1..Len(seq) : rank(i) = r]]

All == <<"A", "l", "l">>
ConfidenceFilters == {"All", "High (>0.8)", "Medium (0.5-0.8)", "Low (<0.5)"}
SortOrders == {"Confidence (High to Low)", "Confidence (Low to High)", "Table Name",
               "Column Name"}

\* the options of the table selectbox
TableFilters(ms) == {All} \cup {ms[i].legacy_table : i \in 1..Len(ms)}

\* enhanced_app.py:225-245  filtered_mappings
FilteredMappings(ms, confidence_filter, table_filter, sort_by) ==
    LET by_confidence ==
            IF confidence_filter = "High (>0.8)"
            THEN SelectSeq(ms, LAMBDA m : m.confidence_score > 80)
            ELSE IF confidence_filter = "Medium (0.5-0.8)"
            THEN SelectSeq(ms, LAMBDA m : 50 <= m.confidence_score /\ m.confidence_score <= 80)
            ELSE IF confidence_filter = "Low (<0.5)"
            THEN SelectSeq(ms, LAMBDA m : m.confidence_score < 50)
            ELSE ms
        by_table ==
            IF table_filter # All
            THEN SelectSeq(by_confidence, LAMBDA m : m.legacy_table = table_filter)
            ELSE by_confidence
        n == Len(by_table)
    IN  IF sort_by = "Confidence (High to Low)"
        THEN SortedBy(by_table, [i, j \in 1..n |->
                by_table[i].confidence_score > by_table[j].confidence_score])
        ELSE IF sort_by = "Confidence (Low to High)"
        THEN SortedBy(by_table, [i, j \in 1..n |->
                by_table[i].confidence_score < by_table[j].confidence_score])
        ELSE IF sort_by = "Table Name"
        THEN SortedBy(by_table, [i, j \in 1..n |->
                TextLess(by_table[i].legacy_table, by_table[j].legacy_table)])
        ELSE SortedBy(by_table, [i, j \in 1..n |->
                TextLess(by_table[i].legacy_column, by_table[j].legacy_column)])

\* enhanced_app.py:253  high_conf
HighConf(filtered_mappings) ==
    SelectSeq(filtered_mappings, LAMBDA m : m.confidence_score > 80)

enhFrame == <<legacy_tables, engineVars, verifyVars, ruleVars, sqlVars, extractVars,
              indexVars, appVars, simple_approved, simple_last, configVars, qualityVars>>

\* enhanced_app.py:281-290  the Approve button of one displayed mapping; the button
\* of an approved mapping is disabled
EnhApprove ==
    /\ session_mappings # <<>>
    /\ Len(enh_approved) < MaxApproved
    /\ \E confidence_filter \in ConfidenceFilters,
          table_filter \in TableFilters(session_mappings), sort_by \in SortOrders :
        LET filtered_mappings ==
                FilteredMappings(session_mappings, confidence_filter, table_filter, sort_by)
        IN  \E i \in 1..Len(filtered_mappings) :
                /\ filtered_mappings[i] \notin Elems(enh_approved)
                /\ enh_approved' = Append(enh_approved, filtered_mappings[i])
    /\ UNCHANGED enhFrame

\* enhanced_app.py:252-255  the Approve All High Confidence button
EnhApproveAllHigh ==
    /\ session_mappings # <<>>
    /\ \E confidence_filter \in ConfidenceFilters,
          table_filter \in TableFilters(session_mappings), sort_by \in SortOrders :
        LET high_conf == HighConf(FilteredMappings(session_mappings, confidence_filter,
                                                   table_filter, sort_by))
        IN  /\ Len(enh_approved) + Len(high_conf) <= MaxApproved
            /\ enh_approved' = enh_approved \o high_conf
    /\ UNCHANGED enhFrame

\* enhanced_app.py:258-260  the Reset All Approvals button
EnhResetApprovals ==
    /\ session_mappings # <<>>
    /\ enh_approved' = <<>>
    /\ UNCHANGED enhFrame

\* the legacy databases of the review sessions
EnhSnapshots ==
    { << [name |-> <<"t", "b", "_", "c", "l", "i", "_", "r", "e", "g">>,
          columns |-> << <<"c", "_", "n", "o", "m">> >>] >>,
      << [name |-> <<"t", "b", "_", "c", "l", "i", "_", "r", "e", "g">>,
          columns |-> << <<"z", "z">>, <<"c", "_", "n", "o", "m">> >>] >>,
      << [name |-> <<"x", "_", "t", "a", "b">>,
          columns |-> << <<"d", "t", "_", "n", "a", "s", "c">>, <<"z", "z">> >>],
         [name |-> <<"t", "b", "_", "c", "l", "i", "_", "r", "e", "g">>,
          columns |-> << <<"c", "_", "n", "o", "m">> >>] >> }

\* a legacy database and a fresh session of the enhanced application
InitEnhReview ==
    /\ legacy_tables \in EnhSnapshots
    /\ EngineIdle
    /\ VerifyIdle
    /\ RuleIdle
    /\ OtherIdle

NextEnhReview ==
    \/ AddRule
    \/ DeleteRule
    \/ GenerateEnhanced
    \/ EnhApprove
    \/ EnhApproveAllHigh
    \/ EnhResetApprovals

SpecEnhReview == InitEnhReview /\ [][NextEnhReview]_vars

(***************************************************************************)
(* Simple application (simple_app.py): the review page                     *)
(***************************************************************************)
\* the Approve handler appending without the membership test
ApprovedAfterAppend(approved_mappings, m) == Append(approved_mappings, m)

\* simple_app.py:71-72  approved_mappings after the Approve button of m
ApprovedAfter(approved_mappings, m) ==
    IF m \notin Elems(approved_mappings)
    THEN Append(approved_mappings, m)
    ELSE approved_mappings

simpleFrame == <<legacy_tables, engineVars, verifyVars, ruleVars, sqlVars, extractVars,
                 indexVars, appVars, enh_approved, configVars, qualityVars>>

\* simple_app.py:70-74  the Approve button of mapping i
SimpleApprove ==
    /\ simple_mappings # <<>>
    /\ \E i \in 1..Len(simple_mappings) :
        /\ \/ simple_mappings[i] \in Elems(simple_approved)
           \/ Len(simple_approved) < MaxApproved
        /\ simple_approved' = ApprovedAfter(simple_approved, simple_mappings[i])
        /\ simple_last' = [kind |-> "approve", mapping |-> simple_mappings[i],
                           before |-> simple_approved]
    /\ UNCHANGED simpleFrame

SimpleReviewColumnNames == { <<"c", "_", "n", "o", "m">>, <<"z", "z">> }

\* a legacy database and a fresh session of the simple application
InitSimpleReview ==
    /\ legacy_tables \in SnapshotsOver(RuleTableNames, SimpleReviewColumnNames)
    /\ EngineIdle
    /\ VerifyIdle
    /\ RuleIdle
    /\ OtherIdle

NextSimpleReview == GenerateSimple \/ SimpleApprove

SpecSimpleReview == InitSimpleReview /\ [][NextSimpleReview]_vars

(***************************************************************************)
(* ConfigManager (config_manager.py): the project files of config_dir      *)
(***************************************************************************)
MaxSaves == 3

UpperCase ==
    <<"A", "B", "C", "D", "E", "F", "G", "H", "I", "J", "K", "L", "M",
      "N", "O", "P", "Q", "R", "S", "T", "U", "V", "W", "X", "Y", "Z">>
LowerCase ==
    <<"a", "b", "c", "d", "e", "f", "g", "h", "i", "j", "k", "l", "m",
      "n", "o", "p", "q", "r", "s", "t", "u", "v", "w", "x", "y", "z">>

\* Python: s.lower()
Lower(s) ==
    [i \in 1..Len(s) |->
        IF \E k \in 1..Len(UpperCase) : UpperCase[k] = s[i]
        THEN LowerCase[CHOOSE k \in 1..Len(UpperCase) : UpperCase[k] = s[i]]
        ELSE s[i]]

JsonSuffix == <<".", "j", "s", "o", "n">>

\* Python: s.endswith(suffix)
EndsWith(s, suffix) ==
    Len(s) >= Len(suffix) /\ SubSeq(s, Len(s) - Len(suffix) + 1, Len(s)) = suffix

\* config_manager.py:53  filename
FileName(name) == Lower(Replace(name, <<" ">>, <<"_">>)) \o JsonSuffix

\* datetime.now().isoformat() at clock tick n
IsoFormat(n) == <<"T", DigitText(n)>>

DatabaseConfig(name, path) ==
    [name |-> name, path |-> path, type |-> <<"s", "q", "l", "i", "t", "e">>,
     description |-> <<>>]

MappingRule(pattern, replacement) ==
    [pattern |-> pattern, replacement |-> replacement, description |-> <<>>,
     created_at |-> <<>>]

ProjectConfig(name, description, custom_rules_list) ==
    [name |-> name,
     description |-> description,
     legacy_db |-> DatabaseConfig(<<"l">>, <<"l", ".", "d", "b">>),
     modern_db |-> DatabaseConfig(<<"m">>, <<"m", ".", "d", "b">>),
     custom_rules |-> custom_rules_list,
     created_at |-> IsoFormat(0),
     last_modified |-> IsoFormat(0)]

\* asdict of a DatabaseConfig, as json.dump writes it
DatabaseAsDict(db) ==
    JObj([name |-> JStr(db.name), path |-> JStr(db.path), type |-> JStr(db.type),
          description |-> JStr(db.description)])

\* asdict of a MappingRule
RuleAsDict(rule) ==
    JObj([pattern |-> JStr(rule.pattern), replacement |-> JStr(rule.replacement),
          description |-> JStr(rule.description), created_at |-> JStr(rule.created_at)])

\* config_manager.py:57  asdict(config)
AsDict(config) ==
    JObj([name |-> JStr(config.name),
          description |-> JStr(config.description),
          legacy_db |-> DatabaseAsDict(config.legacy_db),
          modern_db |-> DatabaseAsDict(config.modern_db),
          custom_rules |-> JList([i \in 1..Len(config.custom_rules) |->
                                     RuleAsDict(config.custom_rules[i])]),
          created_at |-> JStr(config.created_at),
          last_modified |-> JStr(config.last_modified)])

\* DatabaseConfig(**data)
DatabaseFromDict(data) ==
    [name |-> data.f["name"].s, path |-> data.f["path"].s, type |-> data.f["type"].s,
     description |-> data.f["description"].s]

\* MappingRule(**rule)
RuleFromDict(data) ==
    [pattern |-> data.f["pattern"].s, replacement |-> data.f["replacement"].s,
     description |-> data.f["description"].s, created_at |-> data.f["created_at"].s]

\* config_manager.py:71-85  the ProjectConfig built from the file's JSON
FromDict(data) ==
    [name |-> data.f["name"].s,
     description |-> data.f["description"].s,
     legacy_db |-> DatabaseFromDict(data.f["legacy_db"]),
     modern_db |-> DatabaseFromDict(data.f["modern_db"]),
     custom_rules |-> [i \in 1..Len(data.f["custom_rules"].l) |->
                          RuleFromDict(data.f["custom_rules"].l[i])],
     created_at |-> data.f["created_at"].s,
     last_modified |-> data.f["last_modified"].s]

\* config_manager.py:61-85  load_project over the files of config_dir
LoadProjectFrom(files, filename) ==
    IF ~DictHas(files, filename) THEN None
    ELSE Returned(FromDict(DictGet(files, filename, JNull)))

\* config_manager.py:87-92  list_projects over the files of config_dir
ListProjectsFrom(files) ==
    SelectSeq([i \in 1..Len(files) |-> files[i][1]], LAMBDA f : EndsWith(f, JsonSuffix))

ProjectNames == { <<"A", " ", "b">>, <<"a", "_", "b">>, <<"c">> }
Descriptions == { <<"x">>, <<"y">> }
RuleLists == { <<>>, <<MappingRule(<<"c", "_", "*">>, <<"*">>)>> }
FileNamesAsked == {FileName(n) : n \in ProjectNames} \cup {<<"c">>}

configFrame == <<legacy_tables, engineVars, verifyVars, ruleVars, sqlVars, extractVars,
                 indexVars, appVars, reviewVars, qualityVars>>

\* config_manager.py:49-59  save_project
SaveProject ==
    /\ config_clock < MaxSaves
    /\ \E name \in ProjectNames, description \in Descriptions, rules \in RuleLists :
        LET config == [ProjectConfig(name, description, rules)
                          EXCEPT !.last_modified = IsoFormat(config_clock + 1)]
            filename == FileName(name)
        IN  /\ config_files' = DictSet(config_files, filename, AsDict(config))
            /\ config_projects' =
                  {p \in config_projects : p.name # name}
                      \cup {[name |-> name, filename |-> filename, config |-> config]}
            /\ config_out' = [kind |-> "save", value |-> filename]
    /\ config_clock' = config_clock + 1
    /\ UNCHANGED configFrame

\* config_manager.py:61-85  load_project
LoadProject ==
    /\ \E filename \in FileNamesAsked :
        config_out' = [kind |-> "load", filename |-> filename,
                       value |-> LoadProjectFrom(config_files, filename)]
    /\ UNCHANGED <<configFrame, config_files, config_projects, config_clock>>

\* config_manager.py:87-92  list_projects
ListProjects ==
    /\ config_out' = [kind |-> "list", value |-> ListProjectsFrom(config_files)]
    /\ UNCHANGED <<configFrame, config_files, config_projects, config_clock>>

\* config_manager.py:94-102  delete_project
DeleteProject ==
    /\ \E filename \in FileNamesAsked :
        /\ config_files' = IF DictHas(config_files, filename)
                           THEN DictDel(config_files, filename)
                           ELSE config_files
        /\ config_projects' = {p \in config_projects : p.filename # filename}
        /\ config_out' = [kind |-> "delete", filename |-> filename,
                          existed |-> \E i \in 1..Len(config_files) :
                                         config_files[i][1] = filename,
                          value |-> DictHas(config_files, filename)]
    /\ UNCHANGED <<configFrame, config_clock>>

\* an empty config_dir and a fresh ConfigManager
InitConfig ==
    /\ legacy_tables = <<>>
    /\ EngineIdle
    /\ VerifyIdle
    /\ RuleIdle
    /\ SqlIdle
    /\ ExtractIdle
    /\ IndexIdle
    /\ AppIdle
    /\ ReviewIdle
    /\ QualityIdle
    /\ config_files = <<>>
    /\ config_projects = {}
    /\ config_clock = 0
    /\ config_out = Pending

NextConfig == SaveProject \/ LoadProject \/ ListProjects \/ DeleteProject

SpecConfig == InitConfig /\ [][NextConfig]_vars

(***************************************************************************)
(* DataQualityValidator._validate_column (data_quality.py)                 *)
(* A column is the number of its NULL rows and of its other rows.          *)
(***************************************************************************)
MaxRows == 20

\* SELECT column FROM table WHERE column IS NOT NULL LIMIT 100: the number of rows
SampleSize(data) == IF data.values < 100 THEN data.values ELSE 100

\* data_quality.py:112-121  severity; null_percentage > t as null_count * 100 > t * total_count
Severity(null_count, total_count) ==
    IF null_count * 100 > 50 * total_count THEN "critical"
    ELSE IF null_count * 100 > 20 * total_count THEN "high"
    ELSE IF null_count * 100 > 5 * total_count THEN "medium"
    ELSE "low"

\* data_quality.py:105-131  the null check; the description text is left out
NullIssues(data) ==
    LET null_count == data.nulls
        total_count == data.nulls + data.values
    IN  IF null_count > 0
        THEN <<[table |-> <<"t">>, column |-> <<"c">>, issue_type |-> "null_values",
                severity |-> Severity(null_count, total_count), count |-> null_count]>>
        ELSE <<>>

\* what the validators of data_quality.py:133-148 may add for the sampled values
OtherIssues ==
    { <<>>,
      <<[table |-> <<"t">>, column |-> <<"c">>, issue_type |-> "inconsistent_case",
         severity |-> "low", count |-> 1]>> }

\* data_quality.py:93-150  _validate_column
ValidateColumnIssues(data, others) ==
    IF SampleSize(data) = 0 THEN <<>>
    ELSE NullIssues(data) \o others

\* the columns of tables of up to MaxRows rows
ColumnContents ==
    {d \in [nulls : 0..MaxRows, values : 0..MaxRows] : d.nulls + d.values <= MaxRows}

\* one call of _validate_column
ValidateColumn ==
    /\ \E others \in OtherIssues :
        issues' = Returned(ValidateColumnIssues(column_data.value, others))
    /\ UNCHANGED <<legacy_tables, engineVars, verifyVars, ruleVars, sqlVars, extractVars,
                   indexVars, appVars, reviewVars, configVars, column_data>>

\* a table with one column and a validator connected to it
InitQuality ==
    /\ legacy_tables = <<>>
    /\ EngineIdle
    /\ VerifyIdle
    /\ RuleIdle
    /\ SqlIdle
    /\ ExtractIdle
    /\ IndexIdle
    /\ AppIdle
    /\ ReviewIdle
    /\ ConfigIdle
    /\ column_data \in {Returned(d) : d \in ColumnContents}
    /\ issues = Pending

NextQuality == ValidateColumn

SpecQuality == InitQuality /\ [][NextQuality]_vars

(***************************************************************************)
(* Properties of IntelligentMapper.map_schema (Spec)                       *)
(***************************************************************************)
SnapshotItems == [i \in 1..Len(Columns(legacy_tables)) |-> LegacyItem(Columns(legacy_tables)[i])]

AcceptedItems(ms) == [i \in 1..Len(ms) |-> Qualified(ms[i].legacy_table, ms[i].legacy_column)]

\* C1: once map_schema has returned, every legacy column "table.column" of the
\* snapshot occurs in the accepted mappings and unmapped_items together exactly as
\* often as it occurs in the snapshot (once, unless two columns share the text),
\* and the two outputs hold nothing else.
C1_EveryColumnOnce ==
    result.kind = "result" =>
        LET acc == AcceptedItems(result.value.table_mappings)
            un == result.value.unmapped_items
        IN  /\ Len(acc) + Len(un) = Len(SnapshotItems)
            /\ \A i \in 1..Len(SnapshotItems) :
                  Count(acc, SnapshotItems[i]) + Count(un, SnapshotItems[i])
                      = Count(SnapshotItems, SnapshotItems[i])

C1_Witness ==
    /\ result.kind = "result"
    /\ Len(result.value.table_mappings) >= 1
    /\ Len(result.value.unmapped_items) >= 1
    /\ Len(legacy_tables) = 2
    /\ \E i \in 1..Len(SnapshotItems) : Count(SnapshotItems, SnapshotItems[i]) = 2

\* C2: a loop pass that does not raise appends the resolver's result to the
\* accepted mappings exactly when there is a result with confidence_score > 0.5,
\* and in every other case appends "table.column" to unmapped_items.
C2_ThresholdDecides ==
    [][ (pc = "loop" /\ pc' = "loop" /\ pos' = pos + 1) =>
            IF mapping'.kind = "result" /\ mapping'.value.confidence_score > 50
            THEN /\ mappings' = Append(mappings, mapping'.value)
                 /\ unmapped' = unmapped
            ELSE /\ mappings' = mappings
                 /\ unmapped' = Append(unmapped, SnapshotItems[pos + 1]) ]_vars

C2_Witness ==
    /\ pc = "loop"
    /\ pos >= 1
    /\ mapping.kind = "result"
    /\ mapping.value.confidence_score = 50
    /\ unmapped # <<>>
    /\ unmapped[Len(unmapped)] = SnapshotItems[pos]
    /\ mappings # <<>>

\* C9: no failure while resolving a column aborts map_schema: the run never ends
\* with an exception.
C9_FailureNeverAborts == pc # "raised"

\* C10: every accepted MappingResult has a confidence_score within [0, 1].
C10_AcceptedConfidenceInUnitRange ==
    \A i \in 1..Len(mappings) :
        /\ mappings[i].confidence_score >= 0
        /\ mappings[i].confidence_score <= 100

(***************************************************************************)
(* Properties of IntelligentMapper._verify_mapping (SpecVerify)            *)
(***************************************************************************)
Incomplete(data) ==
    /\ data.t = "obj"
    /\ \/ ResponseKeys \ DOMAIN data.f # {}
       \/ /\ "best_match" \in DOMAIN data.f
          /\ data.f["best_match"].t = "str"
          /\ ~Contains(data.f["best_match"].s, Dot)

\* C7: a response object that lacks one of the four keys, or whose best_match text
\* has no '.', makes _verify_mapping return None.
C7_IncompleteResponseYieldsNone ==
    (v_out # Pending /\ v_service.kind = "response" /\ Incomplete(v_service.json))
        => v_out = None

\* C8: whatever text the service answers, _verify_mapping returns a MappingResult
\* or None and raises nothing.
C8_NeverRaises ==
    v_service.kind = "response" => v_out.kind \in {"pending", "result", "none"}

AllRuleMappings ==
    {simple_mappings[i] : i \in 1..Len(simple_mappings)}
        \cup {session_mappings[i] : i \in 1..Len(session_mappings)}

\* C4: the resolver's confidence_score is 0.9 when the legacy column name is a key
\* of the column rule table and 0.3 otherwise, with or without a table rule.
C4_ConfidenceIsHitOrMiss ==
    \A m \in AllRuleMappings :
        m.confidence_score = IF m.legacy_column \in DictKeys(ColumnRules) THEN 90 ELSE 30

C4_Witness ==
    \E m1, m2 \in AllRuleMappings :
        /\ m1.legacy_column = m2.legacy_column
        /\ m1.legacy_column \in DictKeys(ColumnRules)
        /\ DictHas(TableRules, m1.legacy_table)
        /\ ~DictHas(TableRules, m2.legacy_table)
        /\ m1.confidence_score = 90
        /\ m2.confidence_score = 90

RuleValue(rules, k) == rules[CHOOSE i \in 1..Len(rules) : rules[i][1] = k][2]

TargetsFollowRules(m, column_rules) ==
    /\ (m.legacy_table \in DictKeys(TableRules))
            => m.modern_table = RuleValue(TableRules, m.legacy_table)
    /\ (m.legacy_table \notin DictKeys(TableRules))
            => m.modern_table = m.legacy_table
    /\ (m.legacy_column \in DictKeys(column_rules))
            => m.modern_column = RuleValue(column_rules, m.legacy_column)
    /\ (m.legacy_column \notin DictKeys(column_rules))
            => m.modern_column = m.legacy_column

\* C5: modern_table is the table rule's value or else the legacy table name, and
\* modern_column the column rule's value or else the legacy column name, each by
\* its own rule table.
C5_TargetsFollowRules ==
    /\ \A i \in 1..Len(simple_mappings) : TargetsFollowRules(simple_mappings[i], ColumnRules)
    /\ \A i \in 1..Len(session_mappings) :
            TargetsFollowRules(session_mappings[i], column_mappings)

C5_Witness ==
    \E i, j \in 1..Len(simple_mappings) :
        /\ DictHas(TableRules, simple_mappings[i].legacy_table)
        /\ ~DictHas(ColumnRules, simple_mappings[i].legacy_column)
        /\ simple_mappings[i].modern_table # simple_mappings[i].legacy_table
        /\ simple_mappings[i].modern_column = simple_mappings[i].legacy_column
        /\ ~DictHas(TableRules, simple_mappings[j].legacy_table)
        /\ DictHas(ColumnRules, simple_mappings[j].legacy_column)
        /\ simple_mappings[j].modern_table = simple_mappings[j].legacy_table
        /\ simple_mappings[j].modern_column # simple_mappings[j].legacy_column

BothGenerated == simple_mappings # <<>> /\ session_mappings # <<>>

RECURSIVE PickFrom(_, _, _)
\* the elements of seq at the indices of S that are >= i, in the order of seq
PickFrom(seq, S, i) ==
    IF i > Len(seq) THEN <<>>
    ELSE (IF i \in S THEN <<seq[i]>> ELSE <<>>) \o PickFrom(seq, S, i + 1)

\* C15: the accepted mappings and unmapped_items that map_schema returns are each
\* a subsequence of the snapshot's columns in table-then-column declaration
\* order: some set of column positions, read in order, gives the accepted
\* mappings, and the other positions, read in order, give unmapped_items.
C15_OutputsInSnapshotOrder ==
    result.kind = "result" =>
        \E S \in SUBSET (1..Len(SnapshotItems)) :
            /\ AcceptedItems(result.value.table_mappings) = PickFrom(SnapshotItems, S, 1)
            /\ result.value.unmapped_items
                   = PickFrom(SnapshotItems, (1..Len(SnapshotItems)) \ S, 1)

C15_Witness ==
    /\ result.kind = "result"
    /\ Len(result.value.table_mappings) >= 2
    /\ Len(result.value.unmapped_items) >= 2
    /\ AcceptedItems(result.value.table_mappings)[1] # AcceptedItems(result.value.table_mappings)[2]
    /\ result.value.unmapped_items[1] # result.value.unmapped_items[2]

\* C16: a candidate query made by map_schema while no index is loaded ends the
\* run with the not-ready error instead of an empty candidate list.
C16_QueryBeforeIndexFails ==
    (~vectorstore /\ pos >= 1) => pc = "raised"

DatabaseColumnField ==
    <<"d", "a", "t", "a", "b", "a", "s", "e", " ", "c", "o", "l", "u", "m", "n", " ",
      "f", "i", "e", "l", "d", " ">>

\* C17: with an index loaded, map_schema has sent one similarity search per column
\* processed, the last one with k = 5 and the text "database column field
\* <table>.<column>" of that column; and the candidate text of a service call is
\* the rendering of the first three candidates in rank order, one per line, with
\* no line of a fourth or fifth candidate in it.
C17_QueryAndPrompt ==
    /\ vectorstore => index_queries = pos
    /\ (vectorstore /\ pos >= 1) =>
            search_query = [kind |-> "call",
                            text |-> DatabaseColumnField \o SnapshotItems[pos],
                            k |-> 5]
    /\ request.kind = "call" =>
            LET n == IF Len(ms_candidates) < 3 THEN Len(ms_candidates) ELSE 3
            IN  /\ Len(ms_candidates) <= 5
                /\ request.modern_candidates
                       = JoinWith([i \in 1..n |-> RenderCandidate(ms_candidates[i])], Newline)
                /\ \A i \in 4..Len(ms_candidates) :
                       ~Contains(request.modern_candidates, RenderCandidate(ms_candidates[i]))

C17_Witness ==
    /\ vectorstore
    /\ index_queries = 2
    /\ request.kind = "call"
    /\ Len(ms_candidates) = 5
    /\ Count(request.modern_candidates, "\n") = 2

\* C18: a loop pass makes at most one service call, makes it only when the
\* candidate list is non-empty, and a pass whose candidate list is empty appends
\* the column to unmapped_items without a service call; so the calls made never
\* exceed the columns processed.
C18_ServiceOnlyWithCandidates ==
    [][ (pc = "loop" /\ pos' = pos + 1) =>
            /\ service_calls' \in {service_calls, service_calls + 1}
            /\ service_calls' <= pos'
            /\ service_calls' = service_calls + 1 => ms_candidates' # <<>>
            /\ (pc' = "loop" /\ ms_candidates' = <<>>) =>
                    /\ service_calls' = service_calls
                    /\ request'.kind = "not_called"
                    /\ mappings' = mappings
                    /\ unmapped' = Append(unmapped, SnapshotItems[pos + 1]) ]_vars

C18_Witness ==
    /\ vectorstore
    /\ pc = "loop"
    /\ pos = 2
    /\ service_calls = 1
    /\ ms_candidates = <<>>
    /\ Len(unmapped) = 1
    /\ Len(mappings) = 1

(***************************************************************************)
(* Properties of generate_sql_script (SpecSql)                             *)
(***************************************************************************)
RECURSIVE SplitLines(_)
\* Python: text.split("\n")
SplitLines(text) ==
    IF \A i \in 1..Len(text) : text[i] # "\n" THEN <<text>>
    ELSE LET i == CHOOSE k \in 1..Len(text) :
                     text[k] = "\n" /\ \A j \in 1..(k - 1) : text[j] # "\n"
         IN  <<SubSeq(text, 1, i - 1)>> \o SplitLines(SubSeq(text, i + 1, Len(text)))

IsInsert(line) == StartsAt(line, InsertInto, 1)
IsFrom(line) == StartsAt(line, From, 1)
IsComment(line) == StartsAt(line, MappingFor, 1)

\* the table an INSERT line names
InsertTable(line) == SubSeq(line, Len(InsertInto) + 1, Find(line, <<" ", "(">>) - 1)

\* the tables of the INSERT lines of a script, in script order
InsertTables(script) ==
    LET ins == SelectSeq(SplitLines(script), IsInsert)
    IN  [i \in 1..Len(ins) |-> InsertTable(ins[i])]

ModernTables(ms) == [i \in 1..Len(ms) |-> ms[i].modern_table]

\* the distinct modern tables of ms in order of first occurrence
FirstOccurrences(ms) ==
    PickFrom(ModernTables(ms),
             {i \in 1..Len(ms) : \A j \in 1..(i - 1) : ms[j].modern_table # ms[i].modern_table},
             1)

\* the mappings of ms that target the table t, in the order of ms
GroupOf(ms, t) == SelectSeq(ms, LAMBDA m : m.modern_table = t)

\* the scripts generated so far, each with the list it was generated from
Generated ==
    {<<sql_in[k], sc.value[k]>> : k \in 1..2, sc \in {x \in {im_scripts, sm_scripts} : x.kind = "result"}}

\* C11: the INSERT statements of a generated script name the distinct modern
\* tables of the input, one statement each, in order of first occurrence; the
\* script of an empty input is the empty text.
C11_OneInsertPerTable ==
    \A g \in Generated :
        /\ InsertTables(g[2]) = FirstOccurrences(g[1])
        /\ g[1] = <<>> => g[2] = <<>>

C11_Witness ==
    /\ im_scripts.kind = "result"
    /\ sm_scripts.kind = "result"
    /\ Len(sql_in[1]) = 3
    /\ sql_in[1][1].modern_table = sql_in[1][3].modern_table
    /\ sql_in[1][1].modern_table # sql_in[1][2].modern_table
    /\ Len(InsertTables(im_scripts.value[1])) = 2

\* C12: every INSERT statement of a generated script has one FROM line, two lines
\* below the INSERT line, naming the legacy_table of the first mapping of the
\* statement's group and nothing else, whatever legacy tables the other mappings
\* of the group come from; no line of the script holds the word JOIN.
C12_FromFirstOfGroup ==
    \A g \in Generated :
        LET lines == SplitLines(g[2])
        IN  /\ \A i \in 1..Len(lines) :
                  IsInsert(lines[i]) =>
                      /\ i + 2 <= Len(lines)
                      /\ lines[i + 2]
                            = From \o GroupOf(g[1], InsertTable(lines[i]))[1].legacy_table
                                \o <<";">>
            /\ Len(SelectSeq(lines, IsFrom)) = Len(SelectSeq(lines, IsInsert))
            /\ \A i \in 1..Len(lines) : ~Contains(lines[i], <<"J", "O", "I", "N">>)

C12_Witness ==
    /\ im_scripts.kind = "result"
    /\ sm_scripts.kind = "result"
    /\ Len(sql_in[1]) = 3
    /\ sql_in[1][1].modern_table # sql_in[1][2].modern_table
    /\ sql_in[1][2].modern_table = sql_in[1][3].modern_table
    /\ sql_in[1][1].legacy_table = sql_in[1][3].legacy_table
    /\ sql_in[1][2].legacy_table # sql_in[1][3].legacy_table

\* the four lines of the statement of table t in a script, <<>> when there is none
StatementOf(script, t) ==
    LET lines == SplitLines(script)
        at == {i \in 1..Len(lines) : lines[i] = MappingFor \o t}
    IN  IF at = {} THEN <<>>
        ELSE LET i == CHOOSE k \in at : \A j \in at : k <= j
             IN  SubSeq(lines, i, i + 3)

SameGroups(ms1, ms2) ==
    \A t \in {ms1[i].modern_table : i \in 1..Len(ms1)} : GroupOf(ms1, t) = GroupOf(ms2, t)

\* C13: when the two argument lists are reorderings of each other that keep, for
\* every modern table, the same mappings in the same order, the two scripts hold
\* the same statement for every modern table and have the same number of lines.
C13_SameGroupsSameStatements ==
    \A sc \in {x \in {im_scripts, sm_scripts} : x.kind = "result"} :
        SameGroups(sql_in[1], sql_in[2]) =>
            /\ \A t \in {sql_in[1][i].modern_table : i \in 1..Len(sql_in[1])} :
                  /\ StatementOf(sc.value[1], t) # <<>>
                  /\ StatementOf(sc.value[1], t) = StatementOf(sc.value[2], t)
            /\ Len(SplitLines(sc.value[1])) = Len(SplitLines(sc.value[2]))

C13_Witness ==
    /\ im_scripts.kind = "result"
    /\ sm_scripts.kind = "result"
    /\ SameGroups(sql_in[1], sql_in[2])
    /\ Len(sql_in[1]) = 3
    /\ sql_in[1][1].modern_table # sql_in[2][1].modern_table
    /\ sql_in[1][1].legacy_table # sql_in[2][1].legacy_table
    /\ im_scripts.value[1] # im_scripts.value[2]
    /\ \E t \in {sql_in[1][i].modern_table : i \in 1..3} : Len(GroupOf(sql_in[1], t)) = 2

RECURSIVE BlankLinesBefore(_, _)
\* the number of consecutive empty lines directly above line i
BlankLinesBefore(lines, i) ==
    IF i > 1 /\ lines[i - 1] = <<>> THEN 1 + BlankLinesBefore(lines, i - 1) ELSE 0

\* every INSERT line directly below the comment line of its table
CommentAboveInsert(lines) ==
    \A i \in 1..Len(lines) :
        IsInsert(lines[i]) => i > 1 /\ lines[i - 1] = MappingFor \o InsertTable(lines[i])

\* the comment lines of the statements after the first
LaterComments(lines) ==
    {i \in 1..Len(lines) : IsComment(lines[i]) /\ \E j \in 1..(i - 1) : IsComment(lines[j])}

\* C14 as stated: one empty line between consecutive statements, every INSERT line
\* directly below its comment line.
C14_OneBlankLine ==
    \A g \in Generated :
        LET lines == SplitLines(g[2])
        IN  /\ CommentAboveInsert(lines)
            /\ \A i \in LaterComments(lines) : BlankLinesBefore(lines, i) = 1

\* C14: consecutive statements of a generated script are separated by exactly two
\* empty lines, the first statement's comment line follows one empty line, and
\* every INSERT line is directly below the comment line "-- Mapping for <table>"
\* of its table.
C14_TwoBlankLines ==
    \A g \in Generated :
        LET lines == SplitLines(g[2])
        IN  /\ CommentAboveInsert(lines)
            /\ \A i \in 1..Len(lines) :
                  IsComment(lines[i]) =>
                      BlankLinesBefore(lines, i) = IF i \in LaterComments(lines) THEN 2 ELSE 1

C14_Witness ==
    /\ im_scripts.kind = "result"
    /\ sm_scripts.kind = "result"
    /\ Len(InsertTables(im_scripts.value[1])) = 3
    /\ Len(InsertTables(sm_scripts.value[1])) = 3

(***************************************************************************)
(* Properties of extract_schema (SpecExtract)                              *)
(***************************************************************************)
\* the constraints of the inspector's answer that name the column
ConstraintsOf(name) ==
    {i \in 1..Len(db_schema.foreign_keys) :
        name \in Elems(db_schema.foreign_keys[i].constrained_columns)}

\* C19: after extract_schema, a column under no constraint has no foreign_key, and
\* a column under one constraint, at position j of its constrained columns, has
\* the foreign_key "<referred_table>.<j-th referred column>".
C19_ForeignKeyOfEachColumn ==
    extracted.kind = "result" =>
        \A k \in 1..Len(extracted.value) :
            LET col == extracted.value[k]
                cs == ConstraintsOf(col.name)
            IN  /\ cs = {} => col.foreign_key = None
                /\ Cardinality(cs) = 1 =>
                      LET fk == db_schema.foreign_keys[CHOOSE i \in cs : TRUE]
                          j == CHOOSE i \in 1..Len(fk.constrained_columns) :
                                   fk.constrained_columns[i] = col.name
                      IN  col.foreign_key
                              = Str(Qualified(fk.referred_table, fk.referred_columns[j]))

(***************************************************************************)
(* Properties of create_embeddings (SpecIndex)                             *)
(***************************************************************************)
\* the calls on a collection that stored their documents
StoredRuns(collection_name) ==
    SelectSeq(index_log,
              LAMBDA c : c.collection_name = collection_name /\ c.outcome # "EmbeddingError")

\* C20: a collection holds exactly the documents of the last create_embeddings
\* call that stored documents under its name: one table document per table and
\* one column document per column of that call's tables, nothing else, none twice.
C20_CollectionHoldsLastRun ==
    \A collection_name \in CollectionNames :
        LET runs == StoredRuns(collection_name)
        IN  runs # <<>> =>
                DictGet(chroma_db, collection_name, <<>>)
                    = Documents(runs[Len(runs)].tables, 1)

(***************************************************************************)
(* Properties of the intelligent application (SpecApp)                     *)
(***************************************************************************)
\* C21: an Approve click on a mapping whose selectbox the reviewer did not touch
\* leaves the mapping's modern_table and modern_column as they were, and no
\* Approve click changes any other field of the mapping.
C21_ApproveKeepsUntouchedTarget ==
    app_last.kind = "approve" =>
        LET m == app_heap[app_last.ref]
        IN  /\ ~app_last.touched =>
                  /\ m.modern_table = app_last.before.modern_table
                  /\ m.modern_column = app_last.before.modern_column
            /\ m.legacy_table = app_last.before.legacy_table
            /\ m.legacy_column = app_last.before.legacy_column
            /\ m.confidence_score = app_last.before.confidence_score
            /\ m.transformation_logic = app_last.before.transformation_logic
            /\ m.reasoning = app_last.before.reasoning

\* C25: in the list handed to generate_sql_script, two mappings with the same
\* modern_table never have the same modern_column.
C25_NoTargetColumnTwice ==
    app_script.kind = "result" =>
        LET ms == app_script.value.approved_mappings
        IN  \A i, j \in 1..Len(ms) :
                (i < j /\ ms[i].modern_table = ms[j].modern_table)
                    => ms[i].modern_column # ms[j].modern_column

(***************************************************************************)
(* More properties of IntelligentMapper.map_schema (Spec)                  *)
(***************************************************************************)
\* C22: the MappingResult the last loop body got from _verify_mapping carries the
\* table name and the column name of the snapshot column that loop body
\* processed, whatever characters the names hold.
C22_LegacyNamesRoundTrip ==
    (pos >= 1 /\ mapping.kind = "result") =>
        /\ mapping.value.legacy_table = Columns(legacy_tables)[pos].table
        /\ mapping.value.legacy_column = Columns(legacy_tables)[pos].column

(***************************************************************************)
(* More properties of generate_sql_script (SpecSql)                        *)
(***************************************************************************)
RECURSIVE SplitOn(_, _)
\* Python: text.split(sep)
SplitOn(text, sep) ==
    IF ~Contains(text, sep) THEN <<text>>
    ELSE <<SubSeq(text, 1, Find(text, sep) - 1)>>
            \o SplitOn(SubSeq(text, Find(text, sep) + Len(sep), Len(text)), sep)

\* the entries of the column list of an INSERT line
InsertColumns(line) ==
    SplitOn(SubSeq(line, Find(line, <<" ", "(">>) + 2, Len(line) - 1), CommaSpace)

\* the entries of the list of a SELECT line
SelectExpressions(line) == SplitOn(SubSeq(line, Len(Select) + 1, Len(line)), CommaSpace)

\* C23: in every statement of a generated script the INSERT column list and the
\* SELECT list on the next line have as many entries as the statement's group has
\* mappings, and their i-th entries are the modern_column and the
\* "legacy_table.legacy_column" of the i-th mapping of the group, in input order.
C23_ListsAlignedWithGroup ==
    \A g \in Generated :
        LET lines == SplitLines(g[2])
        IN  \A i \in 1..Len(lines) :
                IsInsert(lines[i]) =>
                    LET group == GroupOf(g[1], InsertTable(lines[i]))
                        cols == InsertColumns(lines[i])
                        sels == SelectExpressions(lines[i + 1])
                    IN  /\ StartsAt(lines[i + 1], Select, 1)
                        /\ Len(cols) = Len(group)
                        /\ Len(sels) = Len(group)
                        /\ \A k \in 1..Len(group) :
                              /\ cols[k] = group[k].modern_column
                              /\ sels[k] = group[k].legacy_table \o <<".">>
                                              \o group[k].legacy_column

C23_Witness ==
    /\ im_scripts.kind = "result"
    /\ sm_scripts.kind = "result"
    /\ \E t \in {sql_in[1][i].modern_table : i \in 1..Len(sql_in[1])} :
          LET group == GroupOf(sql_in[1], t)
          IN  /\ Len(group) = 2
              /\ Len(sql_in[1]) = 3
              /\ group[1].modern_column # group[2].modern_column
              /\ group[1].legacy_table # group[2].legacy_table

\* C24: for the same argument list the two generators return the same text.
C24_GeneratorsAgree ==
    (im_scripts.kind = "result" /\ sm_scripts.kind = "result") =>
        \A k \in 1..2 : im_scripts.value[k] = sm_scripts.value[k]

C24_Witness ==
    /\ im_scripts.kind = "result"
    /\ sm_scripts.kind = "result"
    /\ Len(sql_in[1]) = 3
    /\ Len(InsertTables(sm_scripts.value[1])) = 2
    /\ sql_in[1][1].modern_table = sql_in[1][3].modern_table
    /\ sql_in[1][1].legacy_table # sql_in[1][3].legacy_table

(***************************************************************************)
(* Properties of the enhanced application's review page (SpecEnhReview)    *)
(***************************************************************************)
\* approval_rate / 100 of enhanced_app.py:443-444 is at most 1.0
ApprovalRateInRange(approved, ms) == Len(approved) * 100 <= 100 * Len(ms)

\* C26: in the enhanced application every entry of approved_mappings is one of
\* the current mappings and occurs once, there are at most as many approved as
\* generated mappings, and the approval rate lies between 0 and 100 percent.
C26_ApprovedWithinMappings ==
    /\ \A i \in 1..Len(enh_approved) :
          /\ enh_approved[i] \in Elems(session_mappings)
          /\ Count(enh_approved, enh_approved[i]) = 1
    /\ Len(enh_approved) <= Len(session_mappings)
    /\ session_mappings # <<>> => ApprovalRateInRange(enh_approved, session_mappings)

(***************************************************************************)
(* Properties of the simple application's review page (SpecSimpleReview)   *)
(***************************************************************************)
\* C27: in the simple application approved_mappings never holds two equal
\* mappings, and the Approve button of a mapping that was already approved left
\* the list as it was.
C27_NoMappingApprovedTwice ==
    /\ \A i, j \in 1..Len(simple_approved) :
          simple_approved[i] = simple_approved[j] => i = j
    /\ (simple_last.kind = "approve" /\ simple_last.mapping \in Elems(simple_last.before)) =>
          simple_approved = simple_last.before

C27_Witness ==
    /\ simple_last.kind = "approve"
    /\ simple_last.mapping \in Elems(simple_last.before)
    /\ Len(simple_approved) >= 2
    /\ simple_last.mapping = simple_approved[1]

(***************************************************************************)
(* More properties of the custom rules (SpecRule)                          *)
(***************************************************************************)
\* the custom rules whose pattern holds a '*'
StarRules(rules) == SelectSeq(rules, LAMBDA r : Contains(r[1], Star))

\* the keys of a dict in insertion order
KeyList(d) == [i \in 1..Len(d) |-> d[i][1]]

\* the positions of the mappings with confidence 0.9
HitColumns(ms) == {i \in 1..Len(ms) : ms[i].confidence_score = RuleHit}

\* C28: a mapping run of the enhanced application leaves the column rule table
\* with the keys of SimpleMapper.__init__, in the same order, and the table rules
\* as they were; the custom rules without '*' change nothing, so the table is the
\* one the rules with '*' alone produce; and the columns that receive 0.9 are the
\* ones that receive it without custom rules.
C28_CustomRulesKeepKeys ==
    [][column_mappings' # column_mappings =>
          /\ KeyList(column_mappings') = KeyList(ColumnRules)
          /\ column_mappings' = ApplyCustomRules(ColumnRules, StarRules(custom_rules), 1)
          /\ StarRules(custom_rules) = <<>> => column_mappings' = ColumnRules
          /\ \A i \in 1..Len(session_mappings') :
                session_mappings'[i].modern_table =
                    DictGet(TableRules, session_mappings'[i].legacy_table,
                            session_mappings'[i].legacy_table)
          /\ HitColumns(session_mappings') =
                HitColumns(SimpleMapSchema(legacy_tables, TableRules, ColumnRules))]_vars

C28_Witness ==
    /\ \E i, j \in 1..Len(custom_rules) :
          /\ ~Contains(custom_rules[i][1], Star)
          /\ Contains(custom_rules[j][1], Star)
    /\ column_mappings = ApplyCustomRules(ColumnRules, custom_rules, 1)
    /\ column_mappings # ColumnRules
    /\ \E i, j \in 1..Len(session_mappings) :
          /\ session_mappings[i].legacy_column = <<"z", "z">>
          /\ session_mappings[i].confidence_score = RuleMiss
          /\ session_mappings[j].confidence_score = RuleHit
          /\ session_mappings[j].modern_column
                # DictGet(ColumnRules, session_mappings[j].legacy_column, <<>>)

(***************************************************************************)
(* Properties of ConfigManager (SpecConfig)                                *)
(***************************************************************************)
\* list_projects returns the file names of the projects saved and not deleted
ListedAreSaved ==
    Elems(ListProjectsFrom(config_files)) = {p.filename : p \in config_projects}

\* load_project returns every saved project's last saved configuration
LoadedIsLastSaved ==
    \A p \in config_projects :
        LoadProjectFrom(config_files, p.filename) = Returned(p.config)

\* delete_project returned True exactly when the file existed
DeleteReportsExistence ==
    config_out.kind = "delete" => config_out.value = config_out.existed

\* projects with different names have different files
DistinctNamesDistinctFiles ==
    \A p, q \in config_projects : p.name # q.name => p.filename # q.filename

\* C29: after any sequence of save_project and delete_project, list_projects
\* returns exactly the file names of the projects saved and not deleted,
\* load_project returns each project's most recently saved configuration,
\* delete_project returns True exactly when the file existed, and no two projects
\* with different names are stored under the same file name.
C29_ProjectsKeptApart ==
    /\ ListedAreSaved
    /\ LoadedIsLastSaved
    /\ DeleteReportsExistence
    /\ DistinctNamesDistinctFiles

(***************************************************************************)
(* Properties of _validate_column (SpecQuality)                            *)
(***************************************************************************)
\* the null_values issues of the returned list
ReportedNullIssues == SelectSeq(issues.value, LAMBDA q : q.issue_type = "null_values")

\* the severity the percentage of NULL rows calls for
ExpectedSeverity(data) ==
    LET total == data.nulls + data.values
    IN  IF data.nulls * 100 > 50 * total THEN "critical"
        ELSE IF data.nulls * 100 > 20 * total THEN "high"
        ELSE IF data.nulls * 100 > 5 * total THEN "medium"
        ELSE "low"

\* C30: _validate_column reports exactly one null_values issue for a column with
\* at least one NULL in a non-empty table, a column of NULLs only included, with
\* severity critical above 50 percent, high above 20, medium above 5 and low
\* otherwise, and none for a column without NULLs.
C30_OneNullIssuePerNullColumn ==
    issues.kind = "result" =>
        /\ column_data.value.nulls >= 1 =>
              /\ Len(ReportedNullIssues) = 1
              /\ ReportedNullIssues[1].severity = ExpectedSeverity(column_data.value)
              /\ ReportedNullIssues[1].count = column_data.value.nulls
        /\ column_data.value.nulls = 0 => Len(ReportedNullIssues) = 0

\* the same for the columns that hold at least one value that is not NULL
NullIssueWhenSampled ==
    (issues.kind = "result" /\ column_data.value.values >= 1) =>
        /\ column_data.value.nulls >= 1 =>
              /\ Len(ReportedNullIssues) = 1
              /\ ReportedNullIssues[1].severity = ExpectedSeverity(column_data.value)
        /\ column_data.value.nulls = 0 => Len(ReportedNullIssues) = 0

====
